---- MODULE Spec2Model ----
(***************************************************************************)
(* A state-machine model of the conversation graph of the France Travail   *)
(* assistant (src/app/core/agent.py): FranceTravailAgent.process_message   *)
(* drives a LangGraph StateGraph over AgentState                           *)
(*   START -> detect_intent -> route_request -> (agent <-> tools |         *)
(*            specialized) -> format_response -> END                       *)
(* with a MemorySaver checkpointer keyed by thread_id.                     *)
(*                                                                         *)
(* Text is modelled as a sequence of Unicode code points so that           *)
(* str.lower(), str.strip() and the substring test `trigger in message`    *)
(* are computed, not assumed.  A dict is a function whose DOMAIN is its    *)
(* set of keys; a key that was never written is absent, as in Python.      *)
(***************************************************************************)
EXTENDS Integers, Sequences, FiniteSets, TLC

VARIABLES
    store,   \* MemorySaver: thread_id -> channel values of the last checkpoint
    call,    \* the process_message invocations: position in the graph and local state
    turns,   \* number of process_message invocations started so far
    token_cache,  \* FranceTravailAuth._token_cache: no token, or an AccessToken
    lock,         \* FranceTravailAuth._lock: its holder and the callers queued on it
    now,          \* the clock datetime.now() reads, in seconds
    api,          \* the calls of get_access_token and search_offers in flight
    refreshes     \* the requests sent to the token endpoint so far, in order

vars == <<store, call, turns, token_cache, lock, now, api, refreshes>>

\* the state of the job-search client, left alone by the agent
apivars == <<token_cache, lock, now, api, refreshes>>

(***************************************************************************)
(* Bounds of the model.                                                    *)
(***************************************************************************)
MaxTurns == 2
MaxToolRounds == 1
MaxRouteTurns == 1
MaxLoopTurns == 1


\* langgraph's default config["recursion_limit"]: process_message passes none
RecursionLimit == 25

ThreadIds == {"thread_a", "thread_b"}
CallIds == {1, 2}

(***************************************************************************)
(* Text, as code points.                                                   *)
(***************************************************************************)
\* 'job_search'
L_job_search ==
    <<106, 111, 98, 95, 115, 101, 97, 114, 99, 104>>
\* 'cv_help'
L_cv_help ==
    <<99, 118, 95, 104, 101, 108, 112>>
\* 'cover_letter'
L_cover_letter ==
    <<99, 111, 118, 101, 114, 95, 108, 101, 116, 116, 101, 114>>
\* 'training'
L_training ==
    <<116, 114, 97, 105, 110, 105, 110, 103>>
\* 'admin'
L_admin ==
    <<97, 100, 109, 105, 110>>
\* 'profile'
L_profile ==
    <<112, 114, 111, 102, 105, 108, 101>>
\* 'general'
L_general ==
    <<103, 101, 110, 101, 114, 97, 108>>
\* 'g\xe9n\xe8re'
T_genere ==
    <<103, 233, 110, 232, 114, 101>>
\* 'cr\xe9e'
T_cree ==
    <<99, 114, 233, 101>>
\* 'r\xe9dige'
T_redige ==
    <<114, 233, 100, 105, 103, 101>>
\* 'fais-moi'
T_fais_moi ==
    <<102, 97, 105, 115, 45, 109, 111, 105>>
\* '\xe9cris'
T_ecris ==
    <<233, 99, 114, 105, 115>>
\* 'pr\xe9pare'
T_prepare ==
    <<112, 114, 233, 112, 97, 114, 101>>
\* 'analyse'
T_analyse ==
    <<97, 110, 97, 108, 121, 115, 101>>
\* '\xe9value'
T_evalue ==
    <<233, 118, 97, 108, 117, 101>>
\* 'diagnostic'
T_diagnostic ==
    <<100, 105, 97, 103, 110, 111, 115, 116, 105, 99>>
\* 'bilan'
T_bilan ==
    <<98, 105, 108, 97, 110>>
\* "D\xe9sol\xe9, une erreur s'est produite. Pouvez-vous reformuler votre question ?"
APOLOGY ==
    <<68, 233, 115, 111, 108, 233, 44, 32, 117, 110, 101, 32, 101, 114, 114, 101, 117, 114, 32, 115, 39, 101, 115, 116, 32, 112, 114, 111, 100, 117, 105, 116, 101, 46, 32, 80, 111, 117, 118, 101, 122, 45, 118, 111, 117, 115, 32, 114, 101, 102, 111, 114, 109, 117, 108, 101, 114, 32, 118, 111, 116, 114, 101, 32, 113, 117, 101, 115, 116, 105, 111, 110, 32, 63>>
\* "D\xe9sol\xe9, une erreur s'est produite : "
SPECIALIZED_ERROR_PREFIX ==
    <<68, 233, 115, 111, 108, 233, 44, 32, 117, 110, 101, 32, 101, 114, 114, 101, 117, 114, 32, 115, 39, 101, 115, 116, 32, 112, 114, 111, 100, 117, 105, 116, 101, 32, 58, 32>>
\* 'Je ne peux pas traiter cette demande sp\xe9cialis\xe9e.'
SPECIALIZED_FALLBACK ==
    <<74, 101, 32, 110, 101, 32, 112, 101, 117, 120, 32, 112, 97, 115, 32, 116, 114, 97, 105, 116, 101, 114, 32, 99, 101, 116, 116, 101, 32, 100, 101, 109, 97, 110, 100, 101, 32, 115, 112, 233, 99, 105, 97, 108, 105, 115, 233, 101, 46>>
\* 'Peux-tu g\xe9n\xe9rer mon CV ?'
M_generer_cv ==
    <<80, 101, 117, 120, 45, 116, 117, 32, 103, 233, 110, 233, 114, 101, 114, 32, 109, 111, 110, 32, 67, 86, 32, 63>>
\* 'Comment am\xe9liorer mon CV ?'
M_ameliorer_cv ==
    <<67, 111, 109, 109, 101, 110, 116, 32, 97, 109, 233, 108, 105, 111, 114, 101, 114, 32, 109, 111, 110, 32, 67, 86, 32, 63>>
\* 'Comment r\xe9diger une lettre de motivation ?'
M_rediger_lettre ==
    <<67, 111, 109, 109, 101, 110, 116, 32, 114, 233, 100, 105, 103, 101, 114, 32, 117, 110, 101, 32, 108, 101, 116, 116, 114, 101, 32, 100, 101, 32, 109, 111, 116, 105, 118, 97, 116, 105, 111, 110, 32, 63>>
\* 'Je cherche un emploi de d\xe9veloppeur'
M_cherche_emploi ==
    <<74, 101, 32, 99, 104, 101, 114, 99, 104, 101, 32, 117, 110, 32, 101, 109, 112, 108, 111, 105, 32, 100, 101, 32, 100, 233, 118, 101, 108, 111, 112, 112, 101, 117, 114>>
\* 'R\xc9DIGE un bilan'
M_redige_bilan ==
    <<82, 201, 68, 73, 71, 69, 32, 117, 110, 32, 98, 105, 108, 97, 110>>
\* ''
M_empty ==
    <<>>
\* ' CV_Help\n'
O_cv_help_padded ==
    <<32, 67, 86, 95, 72, 101, 108, 112, 10>>
\* 'Cat\xe9gorie : cv_help'
O_sentence ==
    <<67, 97, 116, 233, 103, 111, 114, 105, 101, 32, 58, 32, 99, 118, 95, 104, 101, 108, 112>>
\* ''
O_empty ==
    <<>>
\* 'API error'
E_model ==
    <<65, 80, 73, 32, 101, 114, 114, 111, 114>>
\* "'__end__'"
E_keyerror_end ==
    <<39, 95, 95, 101, 110, 100, 95, 95, 39>>
\* 'Recursion limit of 25 reached without hitting a stop condition.'
E_recursion ==
    <<82, 101, 99, 117, 114, 115, 105, 111, 110, 32, 108, 105, 109, 105, 116, 32, 111, 102, 32, 50, 53, 32, 114, 101, 97, 99, 104, 101, 100, 32, 119, 105, 116, 104, 111, 117, 116, 32, 104, 105, 116, 116, 105, 110, 103, 32, 97, 32, 115, 116, 111, 112, 32, 99, 111, 110, 100, 105, 116, 105, 111, 110, 46>>
\* 'Voici ma r\xe9ponse'
A_answer ==
    <<86, 111, 105, 99, 105, 32, 109, 97, 32, 114, 233, 112, 111, 110, 115, 101>>
\* 'Voici votre document'
A_doc ==
    <<86, 111, 105, 99, 105, 32, 118, 111, 116, 114, 101, 32, 100, 111, 99, 117, 109, 101, 110, 116>>

(***************************************************************************)
(* Python values.                                                          *)
(***************************************************************************)
\* dict.get(k, default)
Get(d, k, default) == IF k \in DOMAIN d THEN d[k] ELSE default

\* d[k] = v
Put(d, k, v) == (k :> v) @@ d

\* bool(d.get(k)) for a str value: None (absent) and "" are falsy
Truthy(d, k) == k \in DOMAIN d /\ Len(d[k]) > 0

Min(S) == CHOOSE x \in S : \A y \in S : x <= y
Max(S) == CHOOSE x \in S : \A y \in S : x >= y

\* str.lower() on Latin-1 text: A-Z and the accented capitals except the sign 215
IsUpper(c) == c \in 65..90 \/ (c \in 192..222 /\ c # 215)
lower(s) == [i \in 1..Len(s) |-> IF IsUpper(s[i]) THEN s[i] + 32 ELSE s[i]]

\* str.strip(): leading and trailing whitespace removed
IsSpace(c) == c \in {9, 10, 11, 12, 13, 28, 29, 30, 31, 32, 133, 160}
strip(s) ==
    LET keep == {i \in 1..Len(s) : ~IsSpace(s[i])}
    IN  IF keep = {} THEN <<>> ELSE SubSeq(s, Min(keep), Max(keep))

\* `sub in s` for str
Contains(s, sub) ==
    \E i \in 0..(Len(s) - Len(sub)) : SubSeq(s, i + 1, i + Len(sub)) = sub

(***************************************************************************)
(* Messages (langchain_core.messages).  `turn` records the invocation of   *)
(* process_message that created the message.                               *)
(***************************************************************************)
HumanMessage(content, turn) ==
    [type |-> "human", content |-> content, tool_calls |-> <<>>,
     name |-> "", status |-> "", metadata |-> <<>>, turn |-> turn]

AIMessage(content, tool_calls, metadata, turn) ==
    [type |-> "ai", content |-> content, tool_calls |-> tool_calls,
     name |-> "", status |-> "", metadata |-> metadata, turn |-> turn]

ToolMessage(content, name, status, turn) ==
    [type |-> "tool", content |-> content, tool_calls |-> <<>>,
     name |-> name, status |-> status, metadata |-> <<>>, turn |-> turn]

\* the reducer of AgentState.messages: every message here gets a fresh id,
\* so the update is appended
add_messages(left, right) == left \o right

\* the registry FRANCE_TRAVAIL_TOOLS
ToolNames ==
    {"search_job_offers", "search_knowledge", "get_admin_info", "generate_document"}

(***************************************************************************)
(* What a language-model call yields: text, an AI message with tool calls, *)
(* or an exception.                                                        *)
(***************************************************************************)
LLMText(content) ==
    [kind |-> "ok", content |-> content, tool_calls |-> <<>>, cls |-> ""]
LLMToolCalls(content, tool_calls) ==
    [kind |-> "ok", content |-> content, tool_calls |-> tool_calls, cls |-> ""]
LLMError(cls, text) ==
    [kind |-> "error", content |-> text, tool_calls |-> <<>>, cls |-> cls]

\* the classes of the exceptions raised in a turn, each with its base classes
ExceptionBases(cls) ==
    CASE cls = "KeyError" -> {"KeyError", "LookupError", "Exception"}
      [] cls = "GraphRecursionError" ->
             {"GraphRecursionError", "RecursionError", "RuntimeError", "Exception"}
      [] cls = "APIError" -> {"APIError", "Exception"}
      [] OTHER -> {cls, "Exception"}

(***************************************************************************)
(* AgentState channels.  A node returns a dict of updates; `messages` is   *)
(* reduced with add_messages, every other key is overwritten, and a key    *)
(* the update does not name keeps the value of the checkpoint.             *)
(***************************************************************************)
Write(state, update) ==
    [k \in DOMAIN state \cup DOMAIN update |->
        IF k \notin DOMAIN update THEN state[k]
        ELSE IF k = "messages"
             THEN add_messages(Get(state, "messages", <<>>), update[k])
             ELSE update[k]]

\* a checkpointer that keeps one checkpoint for all the threads
Loaded_shared(thread_id) ==
    IF DOMAIN store = {} THEN <<>> ELSE store[CHOOSE t \in DOMAIN store : TRUE]

\* a checkpointer that seeds a thread never written with a greeting
Loaded_with_greeting(thread_id) ==
    Get(store, thread_id,
        [messages |-> <<AIMessage(<<66, 111, 110, 106, 111, 117, 114>>, <<>>, <<>>, 0)>>])

\* MemorySaver: the checkpoint of a thread, empty for a thread never written
Loaded(thread_id) == Get(store, thread_id, <<>>)

(***************************************************************************)
(* Text formatting helpers of the tools.                                   *)
(***************************************************************************)
\* str(n) of a natural number
RECURSIVE str_int(_)
str_int(n) ==
    IF n < 10 THEN <<48 + n>> ELSE str_int(n \div 10) \o <<48 + (n % 10)>>

\* strftime('%d/%m/%Y') of a date [day, month, year]
strftime_dmy(d) ==
    LET two(n) == IF n < 10 THEN <<48>> \o str_int(n) ELSE str_int(n)
    IN  two(d.day) \o <<47>> \o two(d.month) \o <<47>> \o str_int(d.year)

\* ", ".join(items)
RECURSIVE join(_)
join(items) ==
    IF items = <<>> THEN <<>>
    ELSE IF Len(items) = 1 THEN items[1]
    ELSE items[1] \o <<44, 32>> \o join(Tail(items))

\* the concatenation of a sequence of texts
RECURSIVE concat(_)
concat(parts) ==
    IF parts = <<>> THEN <<>> ELSE parts[1] \o concat(Tail(parts))

\* what a call of a tool or of a service yields: a value or an exception
Returns(value) == [kind |-> "ok", content |-> value, cls |-> ""]
Raises(cls, text) == [kind |-> "error", content |-> text, cls |-> cls]

(***************************************************************************)
(* The job-search client (FranceTravailAPI) as the tools see it.  The      *)
(* service answers an attempt with an HTTP status and a JSON body.         *)
(***************************************************************************)
HttpResponse(status, json) == [status |-> status, json |-> json]

ContractType ==
    (<<67, 68, 73>> :> "CDI") @@ (<<67, 68, 68>> :> "CDD")
    @@ (<<77, 73, 83>> :> "INTERIM") @@ (<<83, 65, 73>> :> "ALTERNANCE")
    @@ (<<83, 84, 71>> :> "STAGE")

ExperienceLevel ==
    (<<68>> :> "DEBUTANT") @@ (<<69>> :> "EXPERIMENTE") @@ (<<83>> :> "SENIOR")

\* the fields of JobOffer: name, alias, required
JobOfferFields ==
    << <<"id", "id", TRUE>>,
       <<"title", "intitule", TRUE>>,
       <<"description", "description", TRUE>>,
       <<"company_name", "entreprise.nom", TRUE>>,
       <<"location", "lieuTravail.libelle", TRUE>>,
       <<"contract_type", "typeContrat", TRUE>>,
       <<"salary_description", "salaire.libelle", FALSE>>,
       <<"experience_required", "experienceExige", TRUE>>,
       <<"date_creation", "dateCreation", TRUE>>,
       <<"date_update", "dateActualisation", TRUE>>,
       <<"url", "origineOffre.urlOrigine", TRUE>> >>

\* JobOffer(**data): a field is read from the key equal to its alias or,
\* populate_by_name, to its name; a required field found under neither is a
\* validation error, as is a contract type or experience level outside the
\* enumerations
JobOffer(data) ==
    LET key(f) == IF f[2] \in DOMAIN data THEN f[2]
                  ELSE IF f[1] \in DOMAIN data THEN f[1] ELSE "?"
        found == {i \in DOMAIN JobOfferFields : key(JobOfferFields[i]) # "?"}
        missing == {i \in DOMAIN JobOfferFields :
                       JobOfferFields[i][3] /\ i \notin found}
        offer == [n \in {JobOfferFields[i][1] : i \in found} |->
                     data[key(JobOfferFields[
                         CHOOSE i \in found : JobOfferFields[i][1] = n])]]
    IN  IF missing # {} THEN Raises("ValidationError", <<>>)
        ELSE IF offer.contract_type \notin DOMAIN ContractType
                \/ offer.experience_required \notin DOMAIN ExperienceLevel
        THEN Raises("ValidationError", <<>>)
        ELSE Returns(offer)

\* SearchOfferResponse(**data)
SearchOfferResponse(data) ==
    IF ~({"totalResultats", "resultats"} \subseteq DOMAIN data)
    THEN Raises("ValidationError", <<>>)
    ELSE LET offers == [i \in DOMAIN data.resultats |-> JobOffer(data.resultats[i])]
         IN  IF \E i \in DOMAIN offers : offers[i].kind = "error"
             THEN Raises("ValidationError", <<>>)
             ELSE Returns([total_results |-> data.totalResultats,
                           offers |-> [i \in DOMAIN offers |-> offers[i].content]])

\* one attempt of search_offers, given the answer of the service
search_offers_attempt(response) ==
    IF response.status >= 400
    THEN Raises("HTTPStatusError", <<>>)
    ELSE SearchOfferResponse(response.json)

\* stop_after_attempt(3)
MaxAttempts == 3

\* search_offers under @retry, given the answers of the service to the
\* successive attempts: the first attempt that succeeds returns, and after
\* MaxAttempts failed attempts tenacity raises RetryError
RECURSIVE search_offers_from(_, _)
search_offers_from(responses, attempt) ==
    LET r == search_offers_attempt(responses[attempt])
    IN  IF r.kind = "ok" THEN r
        ELSE IF attempt >= MaxAttempts
        THEN Raises("RetryError", <<82, 101, 116, 114, 121, 69, 114, 114, 111, 114>>)
        ELSE search_offers_from(responses, attempt + 1)

search_offers(responses) == search_offers_from(responses, 1)


(***************************************************************************)
(* The tools (app/core/tools.py).  Each takes the arguments of the call    *)
(* and what its underlying operation yields, and returns text or raises    *)
(* ToolException.                                                          *)
(***************************************************************************)
ToolCall(name, args) == [name |-> name, args |-> args]

\* "Aucune offre trouv\xe9e avec ces crit\xe8res. Essayez d'\xe9largir votre recherche."
NO_OFFERS ==
    <<65, 117, 99, 117, 110, 101, 32, 111, 102, 102, 114, 101, 32, 116, 114, 111, 117, 118, 233, 101, 32, 97, 118, 101, 99, 32, 99, 101, 115, 32, 99, 114, 105, 116, 232, 114, 101, 115, 46, 32, 69, 115, 115, 97, 121, 101, 122, 32, 100, 39, 233, 108, 97, 114, 103, 105, 114, 32, 118, 111, 116, 114, 101, 32, 114, 101, 99, 104, 101, 114, 99, 104, 101, 46>>


\* the block of one offer in the result of search_job_offers
format_offer(i, offer) ==
    concat(<<
        \* '**{i}. {title}**\n'
        <<42, 42>>, str_int(i), <<46, 32>>, offer.title, <<42, 42, 10>>,
        \* '   \U0001f4cd {company_name} - {location}\n'
        <<32, 32, 32, 128205, 32>>, offer.company_name, <<32, 45, 32>>,
        offer.location, <<10>>,
        \* '   \U0001f4c4 Contrat : {contract_type}\n'
        <<32, 32, 32, 128196, 32, 67, 111, 110, 116, 114, 97, 116, 32, 58, 32>>, offer.contract_type, <<10>>,
        \* '   \U0001f4b0 Salaire : {salary_description}\n' when there is one
        IF Truthy(offer, "salary_description")
        THEN <<32, 32, 32, 128176, 32, 83, 97, 108, 97, 105, 114, 101, 32, 58, 32>> \o offer.salary_description \o <<10>>
        ELSE <<>>,
        \* '   \U0001f3af Exp\xe9rience : {experience_required}\n'
        <<32, 32, 32, 127919, 32, 69, 120, 112, 233, 114, 105, 101, 110, 99, 101, 32, 58, 32>>, offer.experience_required, <<10>>,
        \* '   \U0001f4c5 Publi\xe9 le : {date_creation:%d/%m/%Y}\n'
        <<32, 32, 32, 128197, 32, 80, 117, 98, 108, 105, 233, 32, 108, 101, 32, 58, 32>>, strftime_dmy(offer.date_creation), <<10>>,
        \* '   \U0001f517 [Voir l'offre]({url})\n\n'
        <<32, 32, 32, 128279, 32, 91, 86, 111, 105, 114, 32, 108, 39, 111, 102, 102, 114, 101, 93, 40>>, offer.url, <<41, 10, 10>> >>)


\* the offers shown: response.offers[:5]
MaxShown == 5

\* a search_job_offers that lists every offer of the response
search_job_offers_listing_all(args, responses) ==
    LET r == search_offers(responses)
    IN  IF r.kind = "error"
        THEN \* "Erreur lors de la recherche d'offres : {str(e)}"
             Raises("ToolException",
                    <<69, 114, 114, 101, 117, 114, 32, 108, 111, 114, 115, 32, 100, 101, 32, 108, 97, 32, 114, 101, 99, 104, 101, 114, 99, 104, 101, 32, 100, 39, 111, 102, 102, 114, 101, 115, 32, 58, 32>> \o r.content)
        ELSE LET response == r.content
                 shown == response.offers
             IN  IF response.total_results = 0
                 THEN Returns(NO_OFFERS)
                 ELSE Returns(concat(<<
                     \* '\U0001f50d **{total_results} offres trouv\xe9es**\n\n'
                     <<128269, 32, 42, 42>>, str_int(response.total_results),
                     <<32, 111, 102, 102, 114, 101, 115, 32, 116, 114, 111, 117, 118, 233, 101, 115, 42, 42, 10, 10>>,
                     concat([i \in DOMAIN shown |-> format_offer(i, shown[i])]),
                     \* '_... et {total_results - 5} autres offres disponibles_'
                     IF response.total_results > MaxShown
                     THEN <<95, 46, 46, 46, 32, 101, 116, 32>>
                          \o str_int(response.total_results - MaxShown)
                          \o <<32, 97, 117, 116, 114, 101, 115, 32, 111, 102, 102, 114, 101, 115, 32, 100, 105, 115, 112, 111, 110, 105, 98, 108, 101, 115, 95>>
                     ELSE <<>> >>))

search_job_offers(args, responses) ==
    LET r == search_offers(responses)
    IN  IF r.kind = "error"
        THEN \* "Erreur lors de la recherche d'offres : {str(e)}"
             Raises("ToolException",
                    <<69, 114, 114, 101, 117, 114, 32, 108, 111, 114, 115, 32, 100, 101, 32, 108, 97, 32, 114, 101, 99, 104, 101, 114, 99, 104, 101, 32, 100, 39, 111, 102, 102, 114, 101, 115, 32, 58, 32>> \o r.content)
        ELSE LET response == r.content
                 shown == SubSeq(response.offers, 1, Min({MaxShown, Len(response.offers)}))
             IN  IF response.total_results = 0
                 THEN Returns(NO_OFFERS)
                 ELSE Returns(concat(<<
                     \* '\U0001f50d **{total_results} offres trouv\xe9es**\n\n'
                     <<128269, 32, 42, 42>>, str_int(response.total_results),
                     <<32, 111, 102, 102, 114, 101, 115, 32, 116, 114, 111, 117, 118, 233, 101, 115, 42, 42, 10, 10>>,
                     concat([i \in DOMAIN shown |-> format_offer(i, shown[i])]),
                     \* '_... et {total_results - 5} autres offres disponibles_'
                     IF response.total_results > MaxShown
                     THEN <<95, 46, 46, 46, 32, 101, 116, 32>>
                          \o str_int(response.total_results - MaxShown)
                          \o <<32, 97, 117, 116, 114, 101, 115, 32, 111, 102, 102, 114, 101, 115, 32, 100, 105, 115, 112, 111, 110, 105, 98, 108, 101, 115, 95>>
                     ELSE <<>> >>))


\* search_knowledge: `results` is what knowledge_base.search yields, a list of
\* documents [source, category, page_content] or an exception
search_knowledge(args, results) ==
    IF results.kind = "error"
    THEN \* 'Erreur lors de la recherche : {str(e)}'
         Raises("ToolException",
                <<69, 114, 114, 101, 117, 114, 32, 108, 111, 114, 115, 32, 100, 101, 32, 108, 97, 32, 114, 101, 99, 104, 101, 114, 99, 104, 101, 32, 58, 32>> \o results.content)
    ELSE IF results.content = <<>>
    THEN \* 'Aucune information trouv\xe9e dans la base de connaissances sur ce sujet.'
         Returns(<<65, 117, 99, 117, 110, 101, 32, 105, 110, 102, 111, 114, 109, 97, 116, 105, 111, 110, 32, 116, 114, 111, 117, 118, 233, 101, 32, 100, 97, 110, 115, 32, 108, 97, 32, 98, 97, 115, 101, 32, 100, 101, 32, 99, 111, 110, 110, 97, 105, 115, 115, 97, 110, 99, 101, 115, 32, 115, 117, 114, 32, 99, 101, 32, 115, 117, 106, 101, 116, 46>>)
    ELSE LET docs == results.content
             block(i) ==
                 concat(<<
                     \* '**{i}. {source}** ({category})\n'
                     <<42, 42>>, str_int(i), <<46, 32>>, docs[i].source,
                     <<42, 42, 32, 40>>, docs[i].category, <<41, 10>>,
                     \* '{page_content[:300]}...\n\n'
                     SubSeq(docs[i].page_content, 1,
                            Min({300, Len(docs[i].page_content)})),
                     <<46, 46, 46, 10, 10>> >>)
         IN  \* '\U0001f4da **Informations trouv\xe9es :**\n\n'
             Returns(<<128218, 32, 42, 42, 73, 110, 102, 111, 114, 109, 97, 116, 105, 111, 110, 115, 32, 116, 114, 111, 117, 118, 233, 101, 115, 32, 58, 42, 42, 10, 10>>
                     \o concat([i \in DOMAIN docs |-> block(i)]))


\* the keys of admin_info, in insertion order, each with its title
\* 'inscription: \U0001f4dd Inscription \xe0 France Travail'
\* 'actualisation: \U0001f504 Actualisation mensuelle'
\* 'allocations: \U0001f4b0 Allocations ch\xf4mage (ARE)'
admin_info ==
    << [topic |-> <<105, 110, 115, 99, 114, 105, 112, 116, 105, 111, 110>>,
        title |-> <<128221, 32, 73, 110, 115, 99, 114, 105, 112, 116, 105, 111, 110, 32, 224, 32, 70, 114, 97, 110, 99, 101, 32, 84, 114, 97, 118, 97, 105, 108>>],
       [topic |-> <<97, 99, 116, 117, 97, 108, 105, 115, 97, 116, 105, 111, 110>>,
        title |-> <<128260, 32, 65, 99, 116, 117, 97, 108, 105, 115, 97, 116, 105, 111, 110, 32, 109, 101, 110, 115, 117, 101, 108, 108, 101>>],
       [topic |-> <<97, 108, 108, 111, 99, 97, 116, 105, 111, 110, 115>>,
        title |-> <<128176, 32, 65, 108, 108, 111, 99, 97, 116, 105, 111, 110, 115, 32, 99, 104, 244, 109, 97, 103, 101, 32, 40, 65, 82, 69, 41>>] >>

\* a get_admin_info that indexes the table instead of calling .get
get_admin_info_indexing(args) ==
    LET topic == lower(args.topic)
        info == {i \in DOMAIN admin_info : admin_info[i].topic = topic}
    IN  IF info = {}
        THEN Raises("KeyError", topic)
        ELSE Returns(<<35, 35, 32>> \o admin_info[CHOOSE i \in info : TRUE].title
                     \o <<10, 10>>)

\* get_admin_info; of the text of a known topic the heading is kept, the
\* sections that follow it being fixed text of the table
get_admin_info(args) ==
    LET topic == lower(args.topic)
        keys == [i \in DOMAIN admin_info |-> admin_info[i].topic]
        info == {i \in DOMAIN admin_info : admin_info[i].topic = topic}
    IN  IF info = {}
        THEN \* 'Sujet non trouv\xe9. Sujets disponibles : {topics_list}'
             Returns(<<83, 117, 106, 101, 116, 32, 110, 111, 110, 32, 116, 114, 111, 117, 118, 233, 46, 32, 83, 117, 106, 101, 116, 115, 32, 100, 105, 115, 112, 111, 110, 105, 98, 108, 101, 115, 32, 58, 32>>
                     \o join(keys))
        ELSE \* '## {title}\n\n'
             Returns(<<35, 35, 32>> \o admin_info[CHOOSE i \in info : TRUE].title
                     \o <<10, 10>>)


\* 'cv'
DOC_cv ==
    <<99, 118>>
\* 'lettre_motivation'
DOC_lettre_motivation ==
    <<108, 101, 116, 116, 114, 101, 95, 109, 111, 116, 105, 118, 97, 116, 105, 111, 110>>

\* generate_document: `generated` is what DocumentGenerator yields, the name
\* of the file written or an exception
generate_document(args, generated) ==
    LET failure(text) ==
            \* 'Erreur lors de la g\xe9n\xe9ration : {str(e)}'
            Raises("ToolException",
                   <<69, 114, 114, 101, 117, 114, 32, 108, 111, 114, 115, 32, 100, 101, 32, 108, 97, 32, 103, 233, 110, 233, 114, 97, 116, 105, 111, 110, 32, 58, 32>> \o text)
    IN  IF args.doc_type = DOC_cv
        THEN IF generated.kind = "error" THEN failure(generated.content)
             ELSE \* '\u2705 CV g\xe9n\xe9r\xe9 avec succ\xe8s !\n\U0001f4c4 Fichier : {name}\n\n...'
                  Returns(<<9989, 32, 67, 86, 32, 103, 233, 110, 233, 114, 233, 32, 97, 118, 101, 99, 32, 115, 117, 99, 99, 232, 115, 32, 33, 10, 128196, 32, 70, 105, 99, 104, 105, 101, 114, 32, 58, 32>>
                          \o generated.content \o <<10, 10>>)
        ELSE IF args.doc_type = DOC_lettre_motivation
        THEN IF generated.kind = "error" THEN failure(generated.content)
             ELSE \* '\u2705 Lettre de motivation g\xe9n\xe9r\xe9e !\n\U0001f4c4 Fichier : {name}\n\n...'
                  Returns(<<9989, 32, 76, 101, 116, 116, 114, 101, 32, 100, 101, 32, 109, 111, 116, 105, 118, 97, 116, 105, 111, 110, 32, 103, 233, 110, 233, 114, 233, 101, 32, 33, 10, 128196, 32, 70, 105, 99, 104, 105, 101, 114, 32, 58, 32>>
                          \o generated.content \o <<10, 10>>)
        ELSE \* ValueError('Type de document non support\xe9 : {doc_type}')
             failure(<<84, 121, 112, 101, 32, 100, 101, 32, 100, 111, 99, 117, 109, 101, 110, 116, 32, 110, 111, 110, 32, 115, 117, 112, 112, 111, 114, 116, 233, 32, 58, 32>>
                     \o args.doc_type)

\* the tool of FRANCE_TRAVAIL_TOOLS a call names, applied to the arguments of
\* the call and to what the operation behind the tool yields
run_tool(tool_call, operation) ==
    CASE tool_call.name = "search_job_offers" -> search_job_offers(tool_call.args, operation)
      [] tool_call.name = "search_knowledge" -> search_knowledge(tool_call.args, operation)
      [] tool_call.name = "get_admin_info" -> get_admin_info(tool_call.args)
      [] tool_call.name = "generate_document" -> generate_document(tool_call.args, operation)

\* repr(ToolException(text)): the text is quoted with ' unless it holds one
\* and no "
repr_ToolException(text) ==
    LET quote == IF Contains(text, <<39>>) /\ ~Contains(text, <<34>>)
                 THEN <<34>> ELSE <<39>>
    IN  <<84, 111, 111, 108, 69, 120, 99, 101, 112, 116, 105, 111, 110, 40>> \o quote \o text \o quote \o <<41>>

\* a ToolNode that lets the exception of a tool leave the node
handle_tool_errors_off == FALSE

\* ToolNode(self.tools): handle_tool_errors keeps its default
handle_tool_errors == TRUE

\* the content of the ToolMessage ToolNode makes of an exception
\* 'Error: {repr(e)}\n Please fix your mistakes.'
tool_error_content(e) ==
    <<69, 114, 114, 111, 114, 58, 32>> \o repr_ToolException(e.content)
    \o <<10, 32, 80, 108, 101, 97, 115, 101, 32, 102, 105, 120, 32, 121, 111, 117, 114, 32, 109, 105, 115, 116, 97, 107, 101, 115, 46>>

(***************************************************************************)
(* The nodes and edge conditions of the graph, as functions of the state.  *)
(***************************************************************************)
Labels ==
    {L_job_search, L_cv_help, L_cover_letter, L_training, L_admin, L_profile, L_general}

detect_intent_node(state, intent) ==
    IF state.messages = <<>>
    THEN [current_intent |-> L_general]
    ELSE [current_intent |-> lower(strip(intent))]

specialized_triggers ==
    (L_cv_help :> <<T_genere, T_cree, T_redige, T_fais_moi>>)
    @@ (L_cover_letter :> <<T_ecris, T_redige, T_genere, T_prepare>>)
    @@ (L_profile :> <<T_analyse, T_evalue, T_diagnostic, T_bilan>>)

\* the route condition without the .lower() of the last message
route_condition_case_sensitive(state) ==
    LET intent == Get(state, "current_intent", L_general)
        last_message ==
            IF state.messages # <<>>
            THEN state.messages[Len(state.messages)].content
            ELSE <<>>
    IN  IF /\ intent \in DOMAIN specialized_triggers
           /\ \E i \in DOMAIN specialized_triggers[intent] :
                  Contains(last_message, specialized_triggers[intent][i])
        THEN "specialized"
        ELSE "agent"

route_condition(state) ==
    LET intent == Get(state, "current_intent", L_general)
        last_message ==
            IF state.messages # <<>>
            THEN lower(state.messages[Len(state.messages)].content)
            ELSE <<>>
    IN  IF /\ intent \in DOMAIN specialized_triggers
           /\ \E i \in DOMAIN specialized_triggers[intent] :
                  Contains(last_message, specialized_triggers[intent][i])
        THEN "specialized"
        ELSE "agent"

route_request_node(state) == <<>>

agent_node(state, response, turn) ==
    [messages |-> <<AIMessage(response.content, response.tool_calls, <<>>, turn)>>]

\* langgraph.prebuilt.tools_condition: "tools" when the last message carries
\* tool calls, "__end__" otherwise
tools_condition(state) ==
    IF state.messages[Len(state.messages)].tool_calls # <<>>
    THEN "tools"
    ELSE "__end__"

\* the path map given to add_conditional_edges for "agent"
agent_path_map == [tools |-> "tools", continue |-> "format_response"]

\* the path map given to add_conditional_edges for "route_request"
route_path_map == [agent |-> "agent", specialized |-> "specialized"]

\* an except clause that names a class the model calls do not raise
specialized_except_narrow == {"ValueError"}

\* the except clause of _specialized_node
specialized_except == {"Exception"}

specialized_node(state, response) ==
    LET intent == Get(state, "current_intent", L_general)
    IN  IF intent \in {L_profile, L_cv_help, L_cover_letter}
        THEN IF response.kind = "error"
                  /\ ExceptionBases(response.cls) \cap specialized_except # {}
             THEN [specialized_response |->
                       SPECIALIZED_ERROR_PREFIX \o response.content]
             ELSE [specialized_response |-> response.content]
        ELSE [specialized_response |-> SPECIALIZED_FALLBACK]

\* the method of SpecializedChains _specialized_node calls for an intent
specialized_chain ==
    (L_profile :> "analyze_profile")
    @@ (L_cv_help :> "generate_cv")
    @@ (L_cover_letter :> "generate_cover_letter")

\* one completion of a chain: the method called and, when the model call
\* raised, the text of the exception
Completion(chain, response) ==
    [chain |-> chain,
     error |-> IF response.kind = "error" THEN <<response.content>> ELSE <<>>]

\* a node that invokes the chain a second time
specialized_completions_twice(state, response) ==
    LET intent == Get(state, "current_intent", L_general)
    IN  IF intent \in DOMAIN specialized_chain
        THEN <<Completion(specialized_chain[intent], response),
               Completion(specialized_chain[intent], response)>>
        ELSE <<>>

\* the model completions of _specialized_node: the method bound to the
\* intent awaits its chain (prompt | llm | StrOutputParser) once
specialized_completions(state, response) ==
    LET intent == Get(state, "current_intent", L_general)
    IN  IF intent \in DOMAIN specialized_chain
        THEN <<Completion(specialized_chain[intent], response)>>
        ELSE <<>>

format_response_node(state, turn) ==
    IF Truthy(state, "specialized_response")
    THEN [messages |->
             <<AIMessage(state.specialized_response, <<>>,
                         [specialized |-> TRUE,
                          intent |-> Get(state, "current_intent", <<>>)],
                         turn)>>]
    ELSE <<>>

\* the ToolMessage ToolNode makes of what a tool call yielded
tool_message(tool_call, outcome, turn) ==
    IF outcome.kind = "error"
    THEN ToolMessage(tool_error_content(outcome), tool_call.name, "error", turn)
    ELSE ToolMessage(outcome.content, tool_call.name, "success", turn)

\* a ToolNode that emits the messages as the calls complete
tools_node_as_completed(state, completed, turn) ==
    LET requested == state.messages[Len(state.messages)].tool_calls
    IN  [messages |->
            [k \in 1..Len(requested) |->
                tool_message(requested[completed[k].call], completed[k].outcome, turn)]]

\* ToolNode: the requested calls run concurrently and `completed` lists, in
\* completion order, each call with what it yielded; the outputs are
\* gathered by position, one ToolMessage per requested call in request order
tools_node(state, completed, turn) ==
    LET requested == state.messages[Len(state.messages)].tool_calls
        outcome(i) == completed[CHOOSE k \in DOMAIN completed : completed[k].call = i].outcome
    IN  [messages |->
            [i \in 1..Len(requested) |-> tool_message(requested[i], outcome(i), turn)]]

(***************************************************************************)
(* process_message: the result dictionaries.                               *)
(***************************************************************************)
RECURSIVE ToolsUsed(_)
ToolsUsed(messages) ==
    IF messages = <<>> THEN <<>>
    ELSE [i \in DOMAIN messages[1].tool_calls |-> messages[1].tool_calls[i].name]
         \o ToolsUsed(Tail(messages))

SuccessResult(result, thread_id) ==
    LET final_message == result.messages[Len(result.messages)]
    IN  [response |-> final_message.content,
         intent |-> Get(result, "current_intent", L_general),
         specialized |-> Truthy(result, "specialized_response"),
         thread_id |-> thread_id,
         tools_used |-> ToolsUsed(result.messages),
         metadata |-> final_message.metadata]

ErrorResult(e, thread_id) ==
    [response |-> APOLOGY, error |-> e, thread_id |-> thread_id]

(***************************************************************************)
(* The state machine.                                                      *)
(***************************************************************************)
\* One invocation of process_message.  pc is the node about to run ("END"
\* once the graph finished, "returned" once process_message returned), state
\* the channel values the running graph holds, step the supersteps done,
\* result the returned dictionary.  The other fields record the history of
\* the invocation: its serial number, the node in which an exception was
\* raised and its class, the nodes that ran, the route taken, the messages
\* the thread held when the turn started, what happened in the tools
\* step just done (what the operations behind the tools yielded and the
\* order in which the calls completed), the method of the agent that was
\* called, and the specialized chains the invocation ran.
IdleCall ==
    [pc |-> "idle", thread_id |-> "", message |-> <<>>, turn |-> 0,
     state |-> <<>>, step |-> 0, result |-> <<>>, raised |-> FALSE,
     failed_at |-> "none", exc |-> "", nodes |-> <<>>, route |-> "none",
     prior |-> <<>>, tools_round |-> <<>>, op |-> "", completions |-> <<>>]

\* the callers of the job-search client
ApiCallers == {1, 2}

\* One call of get_access_token or of search_offers.  pc is "waiting" while
\* the caller is queued on the lock, "locked" once it holds the lock and is
\* about to examine the cache, "refreshing" while its request to the token
\* endpoint is in flight, "get" while its search request is in flight and
\* "backoff" between two attempts.  The other fields record the history of
\* the call: the attempts of search_offers started and how each ended, the
\* refresh requests the current get_access_token issued, the time and the
\* cache it saw when it examined the cache, the refresh that was in flight
\* when it arrived (its index in `refreshes`, 0 for none), what it returned,
\* the class of the exception it raised, and the calls the caller has
\* started.
IdleApiCall ==
    [pc |-> "idle", op |-> "", attempt |-> 0, tried |-> <<>>, requests |-> 0,
     checked |-> <<>>, behind |-> 0, result |-> <<>>, exc |-> "", serial |-> 0]

\* _token_cache = None
NoToken == <<>>

Init ==
    /\ store = <<>>
    /\ call = [c \in CallIds |-> IdleCall]
    /\ turns = 0
    /\ token_cache = NoToken
    /\ lock = [holder |-> 0, waiters |-> <<>>]
    /\ now = 0
    /\ api = [c \in ApiCallers |-> IdleApiCall]
    /\ refreshes = <<>>

\* an except clause that names one class too narrow for what the graph raises
process_message_except_narrow == {"ValueError"}

\* the except clause of process_message
process_message_except == {"Exception"}

\* an exception of class cls raised in node `at` leaves the graph, whose
\* failed step writes no checkpoint, and reaches the try block of
\* process_message: caught, it becomes the error result; otherwise it
\* reaches the caller
Raise(c, cls, e, at) ==
    /\ call' = [call EXCEPT
                   ![c].pc = "returned",
                   ![c].failed_at = at,
                   ![c].exc = cls,
                   ![c].tools_round = <<>>,
                   ![c].completions =
                       IF at = "specialized"
                       THEN specialized_completions(call[c].state, LLMError(cls, e))
                       ELSE @,
                   ![c].raised = (ExceptionBases(cls) \cap process_message_except = {}),
                   ![c].result =
                       IF ExceptionBases(cls) \cap process_message_except = {}
                       THEN <<>>
                       ELSE ErrorResult(e, call[c].thread_id)]
    /\ UNCHANGED <<store, turns>>
    /\ UNCHANGED apivars

\* a superstep that succeeded: the update is applied and checkpointed
CommitStep(c, update, next, round, completions) ==
    LET state == Write(call[c].state, update)
    IN  /\ call' = [call EXCEPT ![c].pc = next,
                                ![c].state = state,
                                ![c].step = @ + 1,
                                ![c].nodes = Append(@, call[c].pc),
                                ![c].route = IF call[c].pc = "route_request"
                                             THEN next ELSE @,
                                ![c].tools_round = round,
                                ![c].completions = completions]
        /\ store' = Put(store, call[c].thread_id, state)
        /\ UNCHANGED turns
        /\ UNCHANGED apivars

CommitRound(c, update, next, round) ==
    CommitStep(c, update, next, round, call[c].completions)

Commit(c, update, next) == CommitRound(c, update, next, <<>>)

\* str(KeyError(key)) for the one key the path maps can miss
KeyErrorText(key) == E_keyerror_end

\* a conditional edge: the path map must know the value the condition returns
Branch(c, update, path, path_map, at) ==
    IF path \in DOMAIN path_map
    THEN Commit(c, update, path_map[path])
    ELSE Raise(c, "KeyError", KeyErrorText(path), at)

\* a Pregel loop that never refuses a superstep
Superstep_unlimited(c, A) == A

\* the Pregel loop refuses a superstep beyond the recursion limit
Superstep(c, A) ==
    IF call[c].step >= RecursionLimit
    THEN Raise(c, "GraphRecursionError", E_recursion, call[c].pc)
    ELSE A

\* process_message up to the first await inside the graph: the checkpoint of
\* the thread is loaded, the input is written over it and checkpointed
process_message(c, thread_id, message, user_profile) ==
    /\ call[c].pc \in {"idle", "returned"}
    /\ LET initial_state ==
               [messages |-> <<HumanMessage(message, turns + 1)>>,
                user_profile |-> user_profile,
                thread_id |-> thread_id]
           state == Write(Loaded(thread_id), initial_state)
       IN  /\ call' = [call EXCEPT ![c] =
                          [IdleCall EXCEPT !.pc = "detect_intent",
                                           !.op = "process_message",
                                           !.thread_id = thread_id,
                                           !.message = message,
                                           !.turn = turns + 1,
                                           !.state = state,
                                           !.prior = Get(Loaded(thread_id), "messages", <<>>)]]
           /\ store' = Put(store, thread_id, state)
    /\ turns' = turns + 1
    /\ UNCHANGED apivars

DetectIntent(c, response) ==
    /\ call[c].pc = "detect_intent"
    /\ Superstep(c,
         IF call[c].state.messages # <<>> /\ response.kind = "error"
         THEN Raise(c, response.cls, response.content, "detect_intent")
         ELSE Commit(c, detect_intent_node(call[c].state, response.content),
                     "route_request"))

RouteRequest(c) ==
    /\ call[c].pc = "route_request"
    /\ Superstep(c,
         LET update == route_request_node(call[c].state)
         IN  Branch(c, update, route_condition(Write(call[c].state, update)),
                    route_path_map, "route_request"))

AgentNode(c, response) ==
    /\ call[c].pc = "agent"
    /\ Superstep(c,
         IF response.kind = "error"
         THEN Raise(c, response.cls, response.content, "agent")
         ELSE LET update == agent_node(call[c].state, response, call[c].turn)
              IN  Branch(c, update, tools_condition(Write(call[c].state, update)),
                         agent_path_map, "agent"))

\* the tools step: every requested call runs its tool; an exception of a
\* tool leaves the node only when ToolNode does not handle tool errors
ToolsNode(c, round) ==
    /\ call[c].pc = "tools"
    /\ Superstep(c,
         LET requested == call[c].state.messages[Len(call[c].state.messages)].tool_calls
             completed ==
                 [k \in DOMAIN round.order |->
                     [call |-> round.order[k],
                      outcome |-> run_tool(requested[round.order[k]],
                                           round.operations[round.order[k]])]]
             raising == {k \in DOMAIN completed : completed[k].outcome.kind = "error"}
         IN  IF raising # {} /\ ~handle_tool_errors
             THEN Raise(c, completed[Min(raising)].outcome.cls,
                        completed[Min(raising)].outcome.content, "tools")
             ELSE CommitRound(c, tools_node(call[c].state, completed, call[c].turn),
                              "agent", round))

SpecializedNode(c, response) ==
    /\ call[c].pc = "specialized"
    /\ Superstep(c,
         IF response.kind = "error"
            /\ ExceptionBases(response.cls) \cap specialized_except = {}
         THEN Raise(c, response.cls, response.content, "specialized")
         ELSE CommitStep(c, specialized_node(call[c].state, response),
                         "format_response", <<>>,
                         specialized_completions(call[c].state, response)))

FormatResponse(c) ==
    /\ call[c].pc = "format_response"
    /\ Superstep(c, Commit(c, format_response_node(call[c].state, call[c].turn), "END"))

\* the graph reached END: ainvoke returns the channel values and
\* process_message builds its result from them
Return(c) ==
    /\ call[c].pc = "END"
    /\ call' = [call EXCEPT ![c].pc = "returned",
                            ![c].result = SuccessResult(call[c].state, call[c].thread_id)]
    /\ UNCHANGED <<store, turns>>
    /\ UNCHANGED apivars

\* _specialized_node called on a state, outside a run of the graph
specialized_node_call(c, state, response) ==
    /\ call[c].pc \in {"idle", "returned"}
    /\ LET uncaught ==
               /\ Get(state, "current_intent", L_general) \in DOMAIN specialized_chain
               /\ response.kind = "error"
               /\ ExceptionBases(response.cls) \cap specialized_except = {}
       IN  call' = [call EXCEPT ![c] =
                       [IdleCall EXCEPT
                           !.pc = "returned",
                           !.op = "_specialized_node",
                           !.turn = turns + 1,
                           !.state = state,
                           !.raised = uncaught,
                           !.exc = IF uncaught THEN response.cls ELSE "",
                           !.result = IF uncaught THEN <<>>
                                      ELSE specialized_node(state, response),
                           !.completions = specialized_completions(state, response)]]
    /\ turns' = turns + 1
    /\ UNCHANGED store
    /\ UNCHANGED apivars

\* 'Aucune conversation trouv\xe9e.'
NO_CONVERSATION ==
    <<65, 117, 99, 117, 110, 101, 32, 99, 111, 110, 118, 101, 114, 115, 97, 116, 105, 111, 110, 32, 116, 114, 111, 117, 118, 233, 101, 46>>

\* MemorySaver.aget: the latest checkpoint of the thread, a dictionary that
\* holds the channels under "channel_values", or None (the empty tuple
\* here) for a thread never written
aget(thread_id) ==
    IF thread_id \in DOMAIN store
    THEN [v |-> 1, id |-> thread_id, channel_values |-> store[thread_id],
          channel_versions |-> <<>>, versions_seen |-> <<>>]
    ELSE <<>>

\* get_conversation_history on a checkpoint; limit is <<>> for None and
\* <<k>> for the number k
get_conversation_history(checkpoint, limit) ==
    IF checkpoint # <<>> /\ "messages" \in DOMAIN checkpoint
    THEN LET messages == checkpoint["messages"]
         IN  IF limit # <<>> /\ limit[1] # 0
             THEN SubSeq(messages, Max({1, Len(messages) - limit[1] + 1}),
                         Len(messages))
             ELSE messages
    ELSE <<>>

\* get_conversation_summary: the fixed text when the history is empty, else
\* what the model makes of the history
get_conversation_summary(messages, response) ==
    IF messages = <<>> THEN NO_CONVERSATION ELSE response.content

\* a call of get_conversation_history; `prior` records the messages the
\* thread held when it was made
get_conversation_history_call(c, thread_id, limit) ==
    /\ call[c].pc \in {"idle", "returned"}
    /\ call' = [call EXCEPT ![c] =
                   [IdleCall EXCEPT
                       !.pc = "returned",
                       !.op = "get_conversation_history",
                       !.thread_id = thread_id,
                       !.turn = turns + 1,
                       !.state = [limit |-> limit],
                       !.prior = Get(Loaded(thread_id), "messages", <<>>),
                       !.result = get_conversation_history(aget(thread_id), limit)]]
    /\ turns' = turns + 1
    /\ UNCHANGED store
    /\ UNCHANGED apivars

\* a call of get_conversation_summary, with what the summarizing model
\* answers if it is asked
get_conversation_summary_call(c, thread_id, response) ==
    /\ call[c].pc \in {"idle", "returned"}
    /\ LET messages == get_conversation_history(aget(thread_id), <<>>)
           failed == messages # <<>> /\ response.kind = "error"
       IN  call' = [call EXCEPT ![c] =
                       [IdleCall EXCEPT
                           !.pc = "returned",
                           !.op = "get_conversation_summary",
                           !.thread_id = thread_id,
                           !.turn = turns + 1,
                           !.prior = Get(Loaded(thread_id), "messages", <<>>),
                           !.raised = failed,
                           !.exc = IF failed THEN response.cls ELSE "",
                           !.result = IF failed THEN <<>>
                                      ELSE get_conversation_summary(messages, response)]]
    /\ turns' = turns + 1
    /\ UNCHANGED store
    /\ UNCHANGED apivars

\* clear_conversation: MemorySaver has no attribute `adelete`, so the await
\* raises AttributeError before any checkpoint is touched, and nothing in
\* clear_conversation catches it
clear_conversation(c, thread_id) ==
    /\ call[c].pc \in {"idle", "returned"}
    /\ call' = [call EXCEPT ![c] =
                   [IdleCall EXCEPT !.pc = "returned",
                                    !.op = "clear_conversation",
                                    !.thread_id = thread_id,
                                    !.turn = turns + 1,
                                    !.raised = TRUE,
                                    !.failed_at = "clear_conversation",
                                    !.exc = "AttributeError"]]
    /\ store' = store
    /\ turns' = turns + 1
    /\ UNCHANGED apivars

(***************************************************************************)
(* Inputs.  The callers of both specifications are sequential: a turn is   *)
(* started when no other is in flight, as the chat page does.              *)
(***************************************************************************)
Callers == {1}
UserProfiles == {<<>>}
ChainResponses == {LLMText(A_doc), LLMText(<<>>), LLMError("APIError", E_model)}
\* 'formation'
Q_formation ==
    <<102, 111, 114, 109, 97, 116, 105, 111, 110>>
\* 'Inscription'
K_Inscription ==
    <<73, 110, 115, 99, 114, 105, 112, 116, 105, 111, 110>>
\* 'index unavailable'
E_index ==
    <<105, 110, 100, 101, 120, 32, 117, 110, 97, 118, 97, 105, 108, 97, 98, 108, 101>>

ToolRequests ==
    {<<ToolCall("search_knowledge", [query |-> Q_formation]),
       ToolCall("get_admin_info", [topic |-> K_Inscription])>>}

\* a tool with no operation behind it
NoOperation == Returns(<<>>)

\* what knowledge_base.search yields: no document, or an exception
KnowledgeResults == {Returns(<<>>), Raises("RuntimeError", E_index)}

\* what the operation behind a requested call can yield
Operations(tool_call) ==
    IF tool_call.name = "search_knowledge" THEN KnowledgeResults ELSE {NoOperation}

\* the orders in which n concurrent calls can complete
Orders(n) == {o \in [1..n -> 1..n] : \A i \in 1..n : \E k \in 1..n : o[k] = i}

\* the ways a tools step can go, given for each requested call what the
\* operation behind it can yield
Rounds(yields) ==
    {[operations |-> ops, order |-> o] :
        ops \in {f \in [DOMAIN yields -> UNION {yields[i] : i \in DOMAIN yields}] :
                    \A i \in DOMAIN yields : f[i] \in yields[i]},
        o \in Orders(Len(yields))}

\* the tool calls of the last message the graph holds
LastRequested(c) == call[c].state.messages[Len(call[c].state.messages)].tool_calls

\* tools rounds already run in the turn
ToolRounds(c) == Cardinality({i \in DOMAIN call[c].nodes : call[c].nodes[i] = "tools"})

AgentResponses(c) ==
    {LLMText(A_answer), LLMError("APIError", E_model)}
    \cup (IF ToolRounds(c) < MaxToolRounds
          THEN {LLMToolCalls(<<>>, r) : r \in ToolRequests}
          ELSE {})

ToolOutputs(c) ==
    IF call[c].pc # "tools" THEN {}
    ELSE Rounds([i \in DOMAIN LastRequested(c) |-> Operations(LastRequested(c)[i])])

AgentStep(c) == \E r \in AgentResponses(c) : AgentNode(c, r)
ToolsStep(c) == \E o \in ToolOutputs(c) : ToolsNode(c, o)
SpecializedStep(c) == \E r \in ChainResponses : SpecializedNode(c, r)

\* the steps of a turn in flight
GraphStep(c) ==
    \/ RouteRequest(c)
    \/ AgentStep(c)
    \/ ToolsStep(c)
    \/ SpecializedStep(c)
    \/ FormatResponse(c)
    \/ Return(c)

(***************************************************************************)
(* Spec: turns on two threads, a few messages, every path of the graph.    *)
(***************************************************************************)
UserMessages == {M_rediger_lettre, M_cherche_emploi}
IntentResponses ==
    {LLMText(L_cover_letter), LLMText(L_job_search), LLMError("APIError", E_model)}

StartTurn(c) ==
    /\ turns < MaxTurns
    /\ \E t \in ThreadIds, m \in UserMessages, p \in UserProfiles :
           process_message(c, t, m, p)

ClassifyTurn(c) == \E r \in IntentResponses : DetectIntent(c, r)

Next ==
    \E c \in Callers :
        \/ StartTurn(c)
        \/ ClassifyTurn(c)
        \/ GraphStep(c)

Spec == Init /\ [][Next]_vars

(***************************************************************************)
(* SpecRoute: one thread, every message and every answer of the            *)
(* classifying model the routing claims are about.                         *)
(***************************************************************************)
RouteMessages ==
    {M_generer_cv, M_ameliorer_cv, M_rediger_lettre, M_cherche_emploi,
     M_redige_bilan, M_empty}
RouteIntentResponses ==
    {LLMText(l) : l \in Labels}
    \cup {LLMText(O_cv_help_padded), LLMText(O_sentence), LLMText(O_empty),
          LLMError("APIError", E_model)}

StartRouteTurn(c) ==
    /\ turns < MaxRouteTurns
    /\ \E m \in RouteMessages, p \in UserProfiles :
           process_message(c, "thread_a", m, p)

ClassifyRouteTurn(c) == \E r \in RouteIntentResponses : DetectIntent(c, r)

NextRoute ==
    \E c \in Callers :
        \/ StartRouteTurn(c)
        \/ ClassifyRouteTurn(c)
        \/ GraphStep(c)

SpecRoute == Init /\ [][NextRoute]_vars

(***************************************************************************)
(* SpecLoop: a model that may request tools at every call, with no cap on  *)
(* the rounds other than the one the graph loop applies.                   *)
(***************************************************************************)
LoopAgentResponses ==
    {LLMText(A_answer)} \cup {LLMToolCalls(<<>>, r) : r \in ToolRequests}

LoopToolOutputs(c) ==
    IF call[c].pc # "tools" THEN {}
    ELSE {[operations |-> [i \in DOMAIN LastRequested(c) |-> NoOperation],
           order |-> [i \in DOMAIN LastRequested(c) |-> i]]}

StartLoopTurn(c) ==
    /\ turns < MaxLoopTurns
    /\ \E t \in ThreadIds, m \in UserMessages, p \in UserProfiles :
           process_message(c, t, m, p)

LoopAgentStep(c) == \E r \in LoopAgentResponses : AgentNode(c, r)
LoopToolsStep(c) == \E o \in LoopToolOutputs(c) : ToolsNode(c, o)

NextLoop ==
    \E c \in Callers :
        \/ StartLoopTurn(c)
        \/ ClassifyTurn(c)
        \/ RouteRequest(c)
        \/ LoopAgentStep(c)
        \/ LoopToolsStep(c)
        \/ SpecializedStep(c)
        \/ FormatResponse(c)
        \/ Return(c)

SpecLoop == Init /\ [][NextLoop]_vars

(***************************************************************************)
(* SpecTools: one tools step per turn, over every tool, with the arguments *)
(* and the answers of the operations behind the tools the claims on the    *)
(* tools are about.                                                        *)
(***************************************************************************)
MaxToolsTurns == 1

\* 'retraite'
K_retraite ==
    <<114, 101, 116, 114, 97, 105, 116, 101>>
\* 'pdf'
DOC_pdf ==
    <<112, 100, 102>>
\* 'cv_dupont.pdf'
F_cv ==
    <<99, 118, 95, 100, 117, 112, 111, 110, 116, 46, 112, 100, 102>>
\* 'disk full'
E_disk ==
    <<100, 105, 115, 107, 32, 102, 117, 108, 108>>
\* 'd\xe9veloppeur'
Q_dev ==
    <<100, 233, 118, 101, 108, 111, 112, 112, 101, 117, 114>>

\* an offer as the service sends it: company, place and origin are objects
OfferOfService(id) ==
    [id |-> str_int(id),
     intitule |-> <<68, 233, 118, 101, 108, 111, 112, 112, 101, 117, 114, 32, 80, 121, 116, 104, 111, 110>>,
     description |-> <<67, 68, 73, 32, 80, 97, 114, 105, 115>>,
     entreprise |-> [nom |-> <<84, 101, 99, 104, 67, 111, 114, 112>>],
     lieuTravail |-> [libelle |-> <<80, 97, 114, 105, 115>>],
     typeContrat |-> <<67, 68, 73>>,
     experienceExige |-> <<69>>,
     dateCreation |-> [day |-> 15, month |-> 1, year |-> 2025],
     dateActualisation |-> [day |-> 16, month |-> 1, year |-> 2025],
     origineOffre |-> [urlOrigine |-> <<104, 116, 116, 112, 115, 58, 47, 47, 101, 120, 97, 109, 112, 108, 101, 46, 99, 111, 109, 47, 106, 111, 98, 47>> \o str_int(id)]]

\* the same offer under the keys the aliases of JobOffer name
OfferOfAliases(id) ==
    LET o == OfferOfService(id)
    IN  [k \in {"id", "intitule", "description", "typeContrat", "experienceExige",
                "dateCreation", "dateActualisation"} |-> o[k]]
        @@ ("entreprise.nom" :> o.entreprise.nom)
        @@ ("lieuTravail.libelle" :> o.lieuTravail.libelle)
        @@ ("origineOffre.urlOrigine" :> o.origineOffre.urlOrigine)

NoOffers == [totalResultats |-> 0, resultats |-> <<>>]
OneOfferOfService == [totalResultats |-> 42, resultats |-> <<OfferOfService(123)>>]
SixOffersOfAliases ==
    [totalResultats |-> 12, resultats |-> [i \in 1..6 |-> OfferOfAliases(i)]]

\* the answers of the service to the attempts of one search
ServiceAnswers ==
    {[i \in 1..MaxAttempts |-> HttpResponse(200, d)] :
        d \in {NoOffers, OneOfferOfService, SixOffersOfAliases}}
    \cup {[i \in 1..MaxAttempts |-> HttpResponse(500, <<>>)],
          [i \in 1..MaxAttempts |->
              IF i < MaxAttempts THEN HttpResponse(500, <<>>)
              ELSE HttpResponse(200, NoOffers)]}

GeneratorResults == {Returns(F_cv), Raises("OSError", E_disk)}

WideKnowledgeResults ==
    KnowledgeResults
    \cup {Returns(<<[source |-> <<103, 117, 105, 100, 101, 46, 109, 100>>,
                    category |-> <<102, 111, 114, 109, 97, 116, 105, 111, 110>>,
                    page_content |-> <<76, 101, 32, 67, 80, 70, 32, 102, 105, 110, 97, 110, 99, 101, 32, 108, 101, 115, 32, 102, 111, 114, 109, 97, 116, 105, 111, 110, 115, 46>>]>>)}

WideToolRequests ==
    {<<ToolCall("search_job_offers", [keywords |-> Q_dev])>>,
     <<ToolCall("search_knowledge", [query |-> Q_formation])>>}
    \cup {<<ToolCall("get_admin_info", [topic |-> t])>> :
              t \in {K_Inscription, K_retraite, <<>>}}
    \cup {<<ToolCall("generate_document", [doc_type |-> d, data |-> <<>>])>> :
              d \in {DOC_cv, DOC_lettre_motivation, DOC_pdf}}
    \cup {<<ToolCall("generate_document", [doc_type |-> DOC_pdf, data |-> <<>>]),
            ToolCall("get_admin_info", [topic |-> K_retraite])>>}

WideOperations(tool_call) ==
    CASE tool_call.name = "search_job_offers" -> ServiceAnswers
      [] tool_call.name = "search_knowledge" -> WideKnowledgeResults
      [] tool_call.name = "generate_document" -> GeneratorResults
      [] OTHER -> {NoOperation}

\* the model requests tools once, then answers
ToolsAgentResponses(c) ==
    IF call[c].pc # "agent" THEN {}
    ELSE IF ToolRounds(c) = 0
    THEN {LLMToolCalls(<<>>, r) : r \in WideToolRequests}
    ELSE {LLMText(A_answer)}

WideToolOutputs(c) ==
    IF call[c].pc # "tools" THEN {}
    ELSE Rounds([i \in DOMAIN LastRequested(c) |-> WideOperations(LastRequested(c)[i])])

StartToolsTurn(c) ==
    /\ turns < MaxToolsTurns
    /\ \E t \in ThreadIds, m \in UserMessages, p \in UserProfiles :
           process_message(c, t, m, p)

ClassifyToolsTurn(c) == DetectIntent(c, LLMText(L_job_search))
ToolsAgentStep(c) == \E r \in ToolsAgentResponses(c) : AgentNode(c, r)
WideToolsStep(c) == \E o \in WideToolOutputs(c) : ToolsNode(c, o)

NextTools ==
    \E c \in Callers :
        \/ StartToolsTurn(c)
        \/ ClassifyToolsTurn(c)
        \/ RouteRequest(c)
        \/ ToolsAgentStep(c)
        \/ WideToolsStep(c)

SpecTools == Init /\ [][NextTools]_vars

(***************************************************************************)
(* The OAuth token cache (app/api/auth.py) and the job-search client       *)
(* (app/api/france_travail.py), step by step.                              *)
(***************************************************************************)
\* 1 minute de marge
ExpiryMargin == 60

\* an is_expired that still accepts the token at expires_at
is_expired_after(token, t) == t > token.expires_at

\* AccessToken.is_expired at time t
is_expired(token, t) == t >= token.expires_at

\* _request_new_token after the endpoint answered token_data, at time t
request_new_token(token_data, t) ==
    [access_token |-> token_data.access_token,
     token_type |-> token_data.token_type,
     expires_in |-> token_data.expires_in,
     scope |-> token_data.scope,
     expires_at |-> t + (token_data.expires_in - ExpiryMargin)]

\* a cache test that ignores the expiry
use_cache_whatever_age(cache, t) == cache # NoToken

\* if self._token_cache and not self._token_cache.is_expired()
use_cache(cache, t) == cache # NoToken /\ ~is_expired(cache, t)

\* a lock every caller finds free
lock_free_for_all(l) == TRUE

\* asyncio.Lock.acquire takes the lock at once when it is not held and no
\* caller is queued
lock_free(l) == l.holder = 0 /\ l.waiters = <<>>

\* the refresh in flight: its index in `refreshes`, 0 when there is none
InFlight ==
    IF \E i \in DOMAIN refreshes : refreshes[i].status = "pending"
    THEN CHOOSE i \in DOMAIN refreshes : refreshes[i].status = "pending"
    ELSE 0

\* async with self._lock, entry: the caller takes the lock or queues on it
Acquire(c, started) ==
    /\ api' = [api EXCEPT ![c] =
                  [started EXCEPT !.pc = IF lock_free(lock) THEN "locked" ELSE "waiting",
                                  !.requests = 0,
                                  !.checked = <<>>,
                                  !.behind = InFlight]]
    /\ lock' = IF lock_free(lock)
               THEN [lock EXCEPT !.holder = c]
               ELSE [lock EXCEPT !.waiters = Append(@, c)]

\* an exit that keeps the lock
Release_never(l) == l

\* async with self._lock, exit: the lock is released and the first caller
\* queued, if any, is woken
Release(l) == [l EXCEPT !.holder = 0]

\* a caller starts get_access_token
get_access_token(c) ==
    /\ api[c].pc \in {"idle", "returned", "raised"}
    /\ Acquire(c, [IdleApiCall EXCEPT !.op = "get_access_token",
                                      !.serial = api[c].serial + 1])
    /\ UNCHANGED <<token_cache, now, refreshes>>
    /\ UNCHANGED <<store, call, turns>>

\* the first caller queued on a released lock takes it
Wake(c) ==
    /\ api[c].pc = "waiting"
    /\ lock.holder = 0
    /\ lock.waiters # <<>> /\ Head(lock.waiters) = c
    /\ lock' = [holder |-> c, waiters |-> Tail(lock.waiters)]
    /\ api' = [api EXCEPT ![c].pc = "locked"]
    /\ UNCHANGED <<token_cache, now, refreshes>>
    /\ UNCHANGED <<store, call, turns>>

\* get_access_token has a token: it returns it to its caller, search_offers
\* going on to its request
TokenReturned(c, token) ==
    IF api[c].op = "search_offers"
    THEN [api[c] EXCEPT !.pc = "get", !.result = token]
    ELSE [api[c] EXCEPT !.pc = "returned", !.result = token]

\* a retry policy that gives up at the first failure
AttemptFailed_at_once(c) ==
    [api[c] EXCEPT !.pc = "raised", !.exc = "RetryError",
                   !.tried = Append(@, "failed")]

\* an attempt of search_offers failed: tenacity waits and starts another
\* one, or after MaxAttempts attempts raises RetryError
AttemptFailed(c) ==
    IF api[c].attempt >= MaxAttempts
    THEN [api[c] EXCEPT !.pc = "raised", !.exc = "RetryError",
                        !.tried = Append(@, "failed")]
    ELSE [api[c] EXCEPT !.pc = "backoff", !.tried = Append(@, "failed")]

\* the holder of the lock examines the cache: it returns the cached token,
\* or sends a request to the token endpoint and awaits the answer
CheckCache(c) ==
    /\ api[c].pc = "locked"
    /\ LET seen == [at |-> now, cache |-> token_cache]
       IN  IF use_cache(token_cache, now)
           THEN /\ api' = [api EXCEPT ![c] =
                              [TokenReturned(c, token_cache.access_token)
                                   EXCEPT !.checked = seen]]
                /\ lock' = Release(lock)
                /\ UNCHANGED refreshes
           ELSE /\ api' = [api EXCEPT ![c].pc = "refreshing",
                                      ![c].requests = @ + 1,
                                      ![c].checked = seen]
                /\ refreshes' = Append(refreshes,
                                       [by |-> c, status |-> "pending", at |-> now,
                                        expires_in |-> 0])
                /\ UNCHANGED lock
    /\ UNCHANGED <<token_cache, now>>
    /\ UNCHANGED <<store, call, turns>>

\* the token endpoint answers the request in flight: with token data, which
\* become the cached token, or with an error status, which raise_for_status
\* raises through get_access_token; either way the lock is released
RefreshResponds(c, response) ==
    /\ api[c].pc = "refreshing"
    /\ LET k == InFlight
       IN  IF response.status >= 400
           THEN /\ refreshes' = [refreshes EXCEPT ![k].status = "error", ![k].at = now]
                /\ api' = [api EXCEPT ![c] =
                              IF api[c].op = "search_offers"
                              THEN AttemptFailed(c)
                              ELSE [api[c] EXCEPT !.pc = "raised",
                                                  !.exc = "HTTPStatusError"]]
                /\ UNCHANGED token_cache
           ELSE /\ refreshes' = [refreshes EXCEPT
                                    ![k].status = "ok", ![k].at = now,
                                    ![k].expires_in = response.json.expires_in]
                /\ token_cache' = request_new_token(response.json, now)
                /\ api' = [api EXCEPT ![c] =
                              TokenReturned(c, response.json.access_token)]
    /\ lock' = Release(lock)
    /\ UNCHANGED now
    /\ UNCHANGED <<store, call, turns>>

\* a caller starts search_offers: the first attempt begins with
\* get_access_token
search_offers_call(c) ==
    /\ api[c].pc \in {"idle", "returned", "raised"}
    /\ Acquire(c, [IdleApiCall EXCEPT !.op = "search_offers",
                                      !.attempt = 1,
                                      !.serial = api[c].serial + 1])
    /\ UNCHANGED <<token_cache, now, refreshes>>
    /\ UNCHANGED <<store, call, turns>>

\* the service answers the search request of the attempt under way
SearchResponds(c, response) ==
    /\ api[c].pc = "get"
    /\ LET r == search_offers_attempt(response)
       IN  api' = [api EXCEPT ![c] =
                      IF r.kind = "ok"
                      THEN [api[c] EXCEPT !.pc = "returned",
                                          !.result = r.content,
                                          !.tried = Append(@, "ok")]
                      ELSE AttemptFailed(c)]
    /\ UNCHANGED <<token_cache, lock, now, refreshes>>
    /\ UNCHANGED <<store, call, turns>>

\* the wait of tenacity is over: the next attempt begins
Retry(c) ==
    /\ api[c].pc = "backoff"
    /\ Acquire(c, [api[c] EXCEPT !.attempt = @ + 1])
    /\ UNCHANGED <<token_cache, now, refreshes>>
    /\ UNCHANGED <<store, call, turns>>

\* time passes
Tick(d) ==
    /\ now' = now + d
    /\ UNCHANGED <<token_cache, lock, api, refreshes>>
    /\ UNCHANGED <<store, call, turns>>

(***************************************************************************)
(* SpecAuth: two callers of get_access_token, a token endpoint that        *)
(* declares several lifetimes or fails, and a clock.                       *)
(***************************************************************************)
MaxAuthCalls == 3
MaxNow == 60

\* the lifetimes the token endpoint declares, in seconds
Lifetimes == {60, 90, 120}
\* the steps of the clock, in seconds
TickSteps == {30}

\* the answers of the token endpoint to the next request
TokenResponses ==
    {HttpResponse(200, [access_token |-> Len(refreshes), token_type |-> "Bearer",
                        expires_in |-> e, scope |-> "api_offresdemploiv2 o2dsoffre"]) :
        e \in Lifetimes}
    \cup {HttpResponse(500, <<>>)}

StartGetAccessToken(c) ==
    /\ api[1].serial + api[2].serial < MaxAuthCalls
    /\ get_access_token(c)

RefreshStep(c) == \E r \in TokenResponses : RefreshResponds(c, r)

ClockStep == \E d \in TickSteps : now + d <= MaxNow /\ Tick(d)

NextAuth ==
    \/ \E c \in ApiCallers :
           \/ StartGetAccessToken(c)
           \/ Wake(c)
           \/ CheckCache(c)
           \/ RefreshStep(c)
    \/ ClockStep

SpecAuth == Init /\ [][NextAuth]_vars

(***************************************************************************)
(* SpecSearch: one caller of search_offers, with the token endpoint, the   *)
(* job-search service and the clock answering as they may.                 *)
(***************************************************************************)
MaxSearchCalls == 1

\* the answers of the service to one search request
SearchResponses ==
    {HttpResponse(200, NoOffers), HttpResponse(200, SixOffersOfAliases),
     HttpResponse(200, OneOfferOfService), HttpResponse(500, <<>>)}

StartSearch(c) ==
    /\ api[c].serial < MaxSearchCalls
    /\ search_offers_call(c)

SearchStep(c) == \E r \in SearchResponses : SearchResponds(c, r)

NextSearch ==
    \/ StartSearch(1)
    \/ CheckCache(1)
    \/ RefreshStep(1)
    \/ SearchStep(1)
    \/ Retry(1)
    \/ ClockStep

SpecSearch == Init /\ [][NextSearch]_vars

(***************************************************************************)
(* SpecConc: two callers of the agent that do not wait for each other, on  *)
(* the same thread or on different ones, with clear_conversation.          *)
(***************************************************************************)
MaxConcCalls == 3

ConcCallers == {1, 2}
ConcMessages == {M_rediger_lettre}
ConcIntentResponses == {LLMText(L_cover_letter), LLMText(L_job_search)}
ConcAgentResponses == {LLMText(A_answer)}
ConcChainResponses == {LLMText(A_doc)}

StartConcTurn(c) ==
    /\ turns < MaxConcCalls
    /\ \E t \in ThreadIds, m \in ConcMessages, p \in UserProfiles :
           process_message(c, t, m, p)

ClearStep(c) ==
    /\ turns < MaxConcCalls
    /\ \E t \in ThreadIds : clear_conversation(c, t)

ClassifyConcTurn(c) == \E r \in ConcIntentResponses : DetectIntent(c, r)
ConcAgentStep(c) == \E r \in ConcAgentResponses : AgentNode(c, r)
ConcSpecializedStep(c) == \E r \in ConcChainResponses : SpecializedNode(c, r)

NextConc ==
    \E c \in ConcCallers :
        \/ StartConcTurn(c)
        \/ ClearStep(c)
        \/ ClassifyConcTurn(c)
        \/ RouteRequest(c)
        \/ ConcAgentStep(c)
        \/ ConcSpecializedStep(c)
        \/ FormatResponse(c)
        \/ Return(c)

SpecConc == Init /\ [][NextConc]_vars

(***************************************************************************)
(* SpecChain: turns over every message and every label of the classifying  *)
(* model, up to the end of the specialized path, and _specialized_node     *)
(* called on states of every intent.                                       *)
(***************************************************************************)
MaxChainCalls == 2

\* the states _specialized_node is called on
ChainStates ==
    {[messages |-> <<HumanMessage(m, 0)>>, user_profile |-> <<>>,
      thread_id |-> "thread_a", current_intent |-> l] :
        m \in {M_generer_cv, M_empty}, l \in Labels}

ClassifyChainTurn(c) == \E l \in Labels : DetectIntent(c, LLMText(l))

StartChainTurn(c) ==
    /\ turns < MaxChainCalls
    /\ \E m \in RouteMessages, p \in UserProfiles :
           process_message(c, "thread_a", m, p)

DirectChainCall(c) ==
    /\ turns < MaxChainCalls
    /\ \E st \in ChainStates, r \in ChainResponses : specialized_node_call(c, st, r)

NextChain ==
    \/ StartChainTurn(1)
    \/ ClassifyChainTurn(1)
    \/ RouteRequest(1)
    \/ SpecializedStep(1)
    \/ FormatResponse(1)
    \/ Return(1)
    \/ DirectChainCall(2)

SpecChain == Init /\ [][NextChain]_vars

(***************************************************************************)
(* SpecHistory: turns on one thread by one caller, and another caller that *)
(* reads the history of the thread and asks for its summary.               *)
(***************************************************************************)
MaxHistoryCalls == 3

\* the limits get_conversation_history is called with: None, 0, 1, 2
HistoryLimits == {<<>>, <<0>>, <<1>>, <<2>>}

StartHistoryTurn(c) ==
    /\ turns < MaxHistoryCalls
    /\ \E m \in ConcMessages, p \in UserProfiles : process_message(c, "thread_a", m, p)

HistoryStep(c) ==
    /\ turns < MaxHistoryCalls
    /\ \E l \in HistoryLimits : get_conversation_history_call(c, "thread_a", l)

SummaryStep(c) ==
    /\ turns < MaxHistoryCalls
    /\ \E r \in ConcAgentResponses : get_conversation_summary_call(c, "thread_a", r)

NextHistory ==
    \/ StartHistoryTurn(1)
    \/ ClassifyConcTurn(1)
    \/ RouteRequest(1)
    \/ ConcAgentStep(1)
    \/ ConcSpecializedStep(1)
    \/ FormatResponse(1)
    \/ Return(1)
    \/ HistoryStep(2)
    \/ SummaryStep(2)

SpecHistory == Init /\ [][NextHistory]_vars

(***************************************************************************)
(* The request of a job search: the input schema of the tool, the request  *)
(* the tool builds from it, and the query parameters the client builds     *)
(* from the request.  An Optional value is <<>> for None and <<v>> for v.  *)
(***************************************************************************)
None == <<>>
Some(v) == <<v>>
\* the truth value of an Optional text and of an Optional number
IsTrue(o) == o # None /\ o[1] # <<>>
IsNonZero(o) == o # None /\ o[1] # 0

\* ",".join(items)
RECURSIVE comma_join(_)
comma_join(items) ==
    IF items = <<>> THEN <<>>
    ELSE IF Len(items) = 1 THEN items[1]
    ELSE items[1] \o <<44>> \o comma_join(Tail(items))

\* ContractType.__members__: the member names CDI, CDD, INTERIM,
\* ALTERNANCE, STAGE, each with its value
ContractType_members ==
    (<<67, 68, 73>> :> <<67, 68, 73>>) @@ (<<67, 68, 68>> :> <<67, 68, 68>>)
    @@ (<<73, 78, 84, 69, 82, 73, 77>> :> <<77, 73, 83>>)
    @@ (<<65, 76, 84, 69, 82, 78, 65, 78, 67, 69>> :> <<83, 65, 73>>)
    @@ (<<83, 84, 65, 71, 69>> :> <<83, 84, 71>>)

\* ExperienceLevel.__members__: the member names DEBUTANT, EXPERIMENTE,
\* SENIOR, each with its value
ExperienceLevel_members ==
    (<<68, 69, 66, 85, 84, 65, 78, 84>> :> <<68>>)
    @@ (<<69, 88, 80, 69, 82, 73, 77, 69, 78, 84, 69>> :> <<69>>)
    @@ (<<83, 69, 78, 73, 79, 82>> :> <<83>>)

\* valid_types = ["CDI", "CDD", "MIS", "SAI", "STG"]
valid_types ==
    {<<67, 68, 73>>, <<67, 68, 68>>, <<77, 73, 83>>, <<83, 65, 73>>, <<83, 84, 71>>}

\* JobSearchInput(**args): the defaults, the bounds of distance and page,
\* and the validator that keeps the contract types of valid_types
JobSearchInput(args) ==
    LET distance == Get(args, "distance", 30)
        page == Get(args, "page", 0)
        contract_types == Get(args, "contract_types", None)
        valid(ct) == ct \in valid_types
    IN  IF distance < 0 \/ distance > 100 \/ page < 0
        THEN Raises("ValidationError", <<>>)
        ELSE Returns([keywords |-> Get(args, "keywords", None),
                      location |-> Get(args, "location", None),
                      distance |-> distance,
                      contract_types |->
                          IF contract_types = None THEN None
                          ELSE Some(SelectSeq(contract_types[1], valid)),
                      experience_level |-> Get(args, "experience_level", None),
                      page |-> page])

\* SearchOfferRequest(**kwargs): keywords and location are read under
\* their aliases, the other fields under their names; per_page is 1..150,
\* page is not negative, distance is 0..100, and the contract types and
\* experience levels are values of their enumerations
SearchOfferRequest(kwargs) ==
    LET distance == Get(kwargs, "distance", 10)
        page == Get(kwargs, "page", 0)
        per_page == Get(kwargs, "per_page", 20)
        contract_types == Get(kwargs, "contract_types", None)
        experience_levels == Get(kwargs, "experience_levels", None)
        members(o, enum) ==
            o = None \/ \A i \in DOMAIN o[1] : o[1][i] \in DOMAIN enum
    IN  IF \/ distance < 0 \/ distance > 100
           \/ page < 0
           \/ per_page < 1 \/ per_page > 150
           \/ ~members(contract_types, ContractType)
           \/ ~members(experience_levels, ExperienceLevel)
        THEN Raises("ValidationError", <<>>)
        ELSE Returns([keywords |-> Get(kwargs, "motsCles", None),
                      location |-> Get(kwargs, "commune", None),
                      distance |-> distance,
                      contract_types |-> contract_types,
                      experience_levels |-> experience_levels,
                      min_salary |-> Get(kwargs, "min_salary", None),
                      page |-> page,
                      per_page |-> per_page])

\* a range that ends at the first result of the next page
range_of_open_end(page, per_page) ==
    str_int(page * per_page) \o <<45>> \o str_int((page + 1) * per_page)

\* f"{request.page * request.per_page}-{(request.page + 1) * request.per_page - 1}"
range_of(page, per_page) ==
    str_int(page * per_page) \o <<45>> \o str_int((page + 1) * per_page - 1)

\* _build_search_params: the range of the page, and one parameter for each
\* filter of the request that is set
build_search_params(request) ==
    LET add(params, given, k, v) == IF given THEN Put(params, k, v[1]) ELSE params
        range == "range" :> range_of(request.page, request.per_page)
        p1 == add(range, IsTrue(request.keywords), "motsCles", request.keywords)
        p2 == add(p1, IsTrue(request.location), "commune", request.location)
        p3 == add(p2, IsTrue(request.location), "distance", Some(request.distance))
        p4 == add(p3, request.contract_types # None /\ request.contract_types[1] # <<>>,
                  "typeContrat",
                  IF request.contract_types = None THEN None
                  ELSE Some(comma_join(request.contract_types[1])))
        p5 == add(p4, request.experience_levels # None /\ request.experience_levels[1] # <<>>,
                  "experience",
                  IF request.experience_levels = None THEN None
                  ELSE Some(comma_join(request.experience_levels[1])))
    IN  add(p5, IsNonZero(request.min_salary), "salaireMin", request.min_salary)

\* the request that SearchJobOffersTool._arun builds from its arguments:
\* the contract types and the experience level that are names of members
\* are converted to members, ten results a page
search_request(input) ==
    LET member(ct) == ct \in DOMAIN ContractType_members
        named == IF input.contract_types = None THEN <<>>
                 ELSE SelectSeq(input.contract_types[1], member)
        contract_enum ==
            IF input.contract_types = None \/ input.contract_types[1] = <<>> THEN None
            ELSE Some(named)
        level_named ==
            /\ IsTrue(input.experience_level)
            /\ input.experience_level[1] \in DOMAIN ExperienceLevel_members
        exp_enum ==
            IF level_named THEN Some(<<input.experience_level[1]>>) ELSE None
    IN  IF \/ \E i \in DOMAIN named : named[i] \notin DOMAIN ContractType
           \/ level_named /\ input.experience_level[1] \notin DOMAIN ExperienceLevel
        THEN \* ContractType(ct) or ExperienceLevel(level) of a name that is not a value
             Raises("ValueError", <<>>)
        ELSE SearchOfferRequest(
                 [keywords |-> input.keywords,
                  location |-> input.location,
                  distance |-> input.distance,
                  contract_types |-> contract_enum,
                  experience_levels |-> exp_enum,
                  page |-> input.page,
                  per_page |-> 10])

(***************************************************************************)
(* SpecParams: calls of _build_search_params on requests of every page    *)
(* and page size, and calls of the job-search tool up to the parameters    *)
(* of its request, over the filters its input schema describes.            *)
(***************************************************************************)
MaxParamsCalls == 2

Pages == 0..3
PageSizes == {0, 1, 10, 20, 50, 150, 151}

\* '75001'
Q_75001 == <<55, 53, 48, 48, 49>>

\* the keyword arguments of the requests built directly: the default
\* request, the pages, and the request of test_search_offers_with_filters
RequestKwargs ==
    {<<>>}
    \cup {[page |-> p, per_page |-> n] : p \in Pages, n \in PageSizes}
    \cup {[motsCles |-> Some(Q_dev), commune |-> Some(Q_75001), distance |-> 20,
           contract_types |-> Some(<<(<<67, 68, 73>>), (<<67, 68, 68>>)>>),
           experience_levels |-> Some(<<(<<69>>), (<<83>>)>>),
           min_salary |-> Some(45000), page |-> 1, per_page |-> 50]}

\* the contract types and the experience levels a caller of the tool gives
ToolContractTypes ==
    {None,
     Some(<<(<<67, 68, 73>>)>>),
     Some(<<(<<77, 73, 83>>)>>),
     Some(<<(<<83, 65, 73>>), (<<83, 84, 71>>)>>),
     Some(<<(<<67, 68, 73>>), (<<67, 68, 68>>), (<<77, 73, 83>>), (<<83, 65, 73>>), (<<83, 84, 71>>)>>),
     Some(<<(<<73, 78, 84, 69, 82, 73, 77>>)>>)}
ToolExperienceLevels == {None, Some(<<68>>), Some(<<69>>), Some(<<83>>), Some(<<88>>)}

ToolArgs ==
    {[keywords |-> k, contract_types |-> t, experience_level |-> l, page |-> p] :
        k \in {None, Some(Q_dev)}, t \in ToolContractTypes,
        l \in ToolExperienceLevels, p \in {0, 1}}

\* a call of _build_search_params on SearchOfferRequest(**kwargs)
build_search_params_call(c, kwargs) ==
    /\ call[c].pc \in {"idle", "returned"}
    /\ LET request == SearchOfferRequest(kwargs)
       IN  call' = [call EXCEPT ![c] =
                       [IdleCall EXCEPT
                           !.pc = "returned",
                           !.op = "_build_search_params",
                           !.turn = turns + 1,
                           !.state = kwargs,
                           !.raised = request.kind = "error",
                           !.exc = request.cls,
                           !.result = IF request.kind = "error" THEN <<>>
                                      ELSE [request |-> request.content,
                                            params |-> build_search_params(request.content)]]]
    /\ turns' = turns + 1
    /\ UNCHANGED store
    /\ UNCHANGED apivars

\* a call of the job-search tool with the arguments args, up to the
\* parameters of the search it sends; an exception of the conversion is
\* raised as ToolException
search_request_call(c, args) ==
    /\ call[c].pc \in {"idle", "returned"}
    /\ LET input == JobSearchInput(args)
           request == IF input.kind = "error" THEN input
                      ELSE search_request(input.content)
       IN  call' = [call EXCEPT ![c] =
                       [IdleCall EXCEPT
                           !.pc = "returned",
                           !.op = "search_job_offers",
                           !.turn = turns + 1,
                           !.state = args,
                           !.raised = request.kind = "error",
                           !.exc = IF input.kind = "error" THEN input.cls
                                   ELSE IF request.kind = "error" THEN "ToolException"
                                   ELSE "",
                           !.result = IF request.kind = "error" THEN <<>>
                                      ELSE [request |-> request.content,
                                            params |-> build_search_params(request.content)]]]
    /\ turns' = turns + 1
    /\ UNCHANGED store
    /\ UNCHANGED apivars

BuildParamsStep(c) ==
    /\ turns < MaxParamsCalls
    /\ \E kwargs \in RequestKwargs : build_search_params_call(c, kwargs)

SearchRequestStep(c) ==
    /\ turns < MaxParamsCalls
    /\ \E args \in ToolArgs : search_request_call(c, args)

NextParams ==
    \/ BuildParamsStep(1)
    \/ SearchRequestStep(1)

SpecParams == Init /\ [][NextParams]_vars

(***************************************************************************)
(* The helpers of app/utils/helpers.py: chunk_text, one iteration of its   *)
(* loop at a time, and calculate_date_range.  An index of a Python string  *)
(* counts from 0, and a negative index counts from the end.                *)
(***************************************************************************)
\* the defaults of chunk_text
max_length == 1000
overlap == 100

\* an index of a slice or of a search, brought into 0..len
adjust(i, len) ==
    IF i < 0 THEN (IF i + len < 0 THEN 0 ELSE i + len)
    ELSE IF i > len THEN len ELSE i

\* text.rfind(ch, start, end)
rfind(text, ch, start, end) ==
    LET s == adjust(start, Len(text))
        e == adjust(end, Len(text))
        found == {i \in s..(e - 1) : text[i + 1] = ch}
    IN  IF found = {} THEN -1 ELSE CHOOSE i \in found : \A j \in found : j <= i

\* text[start:end]
slice(text, start, end) ==
    LET s == adjust(start, Len(text))
        e == adjust(end, Len(text))
    IN  IF s >= e THEN <<>> ELSE SubSeq(text, s + 1, e)

\* one iteration of the loop of chunk_text; spans keeps the positions
\* that were sliced
chunk_text_iteration(st) ==
    LET end == st.start + max_length
        last_period == rfind(st.text, 46, st.start, end)
        cut == IF end < Len(st.text) /\ last_period > st.start
               THEN last_period + 1 ELSE end
    IN  [st EXCEPT !.chunks = Append(@, slice(st.text, st.start, cut)),
                   !.spans = Append(@, <<adjust(st.start, Len(st.text)),
                                         adjust(cut, Len(st.text))>>),
                   !.start = cut - overlap]

\* chunk_text(text), up to its loop: a text of at most max_length code
\* points is returned as the only chunk
chunk_text_call(c, text) ==
    /\ call[c].pc \in {"idle", "returned"}
    /\ call' = [call EXCEPT ![c] =
                   [IdleCall EXCEPT
                       !.pc = IF Len(text) <= max_length THEN "returned" ELSE "chunking",
                       !.op = "chunk_text",
                       !.turn = turns + 1,
                       !.state = [text |-> text, start |-> 0, chunks |-> <<>>,
                                  spans |-> IF Len(text) <= max_length
                                            THEN <<(<<0, Len(text)>>)>> ELSE <<>>],
                       !.result = IF Len(text) <= max_length THEN <<text>> ELSE <<>>]]
    /\ turns' = turns + 1
    /\ UNCHANGED store
    /\ UNCHANGED apivars

\* the test of the loop, then one iteration or the return of the chunks
chunk_text_step(c) ==
    /\ call[c].pc = "chunking"
    /\ call' = [call EXCEPT ![c] =
                   IF call[c].state.start < Len(call[c].state.text)
                   THEN [@ EXCEPT !.state = chunk_text_iteration(@)]
                   ELSE [@ EXCEPT !.pc = "returned", !.result = call[c].state.chunks]]
    /\ UNCHANGED <<store, turns>>
    /\ UNCHANGED apivars

\* a date and time of day: datetime(year, month, day, hour)
datetime(year, month, day, hour) ==
    [year |-> year, month |-> month, day |-> day, hour |-> hour]

is_leap(year) == year % 4 = 0 /\ (year % 100 # 0 \/ year % 400 = 0)

days_in_month(year, month) ==
    IF month = 2 THEN (IF is_leap(year) THEN 29 ELSE 28)
    ELSE IF month \in {4, 6, 9, 11} THEN 30 ELSE 31

\* date.toordinal(): the days since the day before 1 January of year 1
RECURSIVE days_before_month(_, _)
days_before_month(year, month) ==
    IF month = 1 THEN 0
    ELSE days_before_month(year, month - 1) + days_in_month(year, month - 1)
toordinal(d) ==
    LET y == d.year - 1
    IN  y * 365 + (y \div 4) - (y \div 100) + (y \div 400)
        + days_before_month(d.year, d.month) + d.day

\* date.weekday(): Monday is 0
weekday(d) == (toordinal(d) + 6) % 7

\* d + timedelta(days=n)
RECURSIVE plus_days(_, _)
plus_days(d, n) ==
    IF n = 0 THEN d
    ELSE IF n > 0
    THEN plus_days(IF d.day < days_in_month(d.year, d.month)
                   THEN [d EXCEPT !.day = @ + 1]
                   ELSE IF d.month < 12
                   THEN [d EXCEPT !.month = @ + 1, !.day = 1]
                   ELSE [d EXCEPT !.year = @ + 1, !.month = 1, !.day = 1],
                   n - 1)
    ELSE plus_days(IF d.day > 1
                   THEN [d EXCEPT !.day = @ - 1]
                   ELSE IF d.month > 1
                   THEN [d EXCEPT !.month = @ - 1,
                                  !.day = days_in_month(d.year, d.month - 1)]
                   ELSE [d EXCEPT !.year = @ - 1, !.month = 12, !.day = 31],
                   n + 1)

\* d.replace(year=year, month=month, day=day): ValueError for a month or
\* a day that does not exist
replace(d, year, month, day) ==
    IF month < 1 \/ month > 12
    THEN \* 'month must be in 1..12'
         Raises("ValueError",
                <<109, 111, 110, 116, 104, 32, 109, 117, 115, 116, 32, 98, 101, 32, 105, 110, 32, 49, 46, 46, 49, 50>>)
    ELSE IF day < 1 \/ day > days_in_month(year, month)
    THEN \* 'day is out of range for month'
         Raises("ValueError",
                <<100, 97, 121, 32, 105, 115, 32, 111, 117, 116, 32, 111, 102, 32, 114, 97, 110, 103, 101, 32, 102, 111, 114, 32, 109, 111, 110, 116, 104>>)
    ELSE Returns([d EXCEPT !.year = year, !.month = month, !.day = day])

\* the periods: 'week', 'month', 'quarter', 'year'
P_week == <<119, 101, 101, 107>>
P_month == <<109, 111, 110, 116, 104>>
P_quarter == <<113, 117, 97, 114, 116, 101, 114>>
P_year == <<121, 101, 97, 114>>

\* start, end of two dates that may have raised; end - timedelta(days=less)
date_range(start, end, less) ==
    IF start.kind = "error" THEN start
    ELSE IF end.kind = "error" THEN end
    ELSE Returns(<<start.content, plus_days(end.content, 0 - less)>>)

\* calculate_date_range(period, reference_date), called at the date today
calculate_date_range(period, reference_date, today) ==
    LET ref == IF reference_date = None THEN today ELSE reference_date[1]
        start_month == ((ref.month - 1) \div 3) * 3 + 1
        end_month == start_month + 2
    IN  IF period = P_week
        THEN Returns(<<plus_days(ref, 0 - weekday(ref)),
                       plus_days(plus_days(ref, 0 - weekday(ref)), 6)>>)
        ELSE IF period = P_month
        THEN date_range(replace(ref, ref.year, ref.month, 1),
                        IF ref.month = 12
                        THEN replace(ref, ref.year + 1, 1, 1)
                        ELSE replace(ref, ref.year, ref.month + 1, 1),
                        1)
        ELSE IF period = P_quarter
        THEN date_range(replace(ref, ref.year, start_month, 1),
                        IF end_month > 12
                        THEN replace(ref, ref.year + 1, 1, 1)
                        ELSE replace(ref, ref.year, end_month + 1, 1),
                        1)
        ELSE IF period = P_year
        THEN date_range(replace(ref, ref.year, 1, 1),
                        replace(ref, ref.year, 12, 31),
                        0)
        ELSE \* 'Période non supportée : {period}'
             Raises("ValueError",
                    <<80, 233, 114, 105, 111, 100, 101, 32, 110, 111, 110, 32, 115, 117, 112, 112, 111, 114, 116, 233, 101, 32, 58, 32>> \o period)

\* a call of calculate_date_range
calculate_date_range_call(c, period, reference_date, today) ==
    /\ call[c].pc \in {"idle", "returned"}
    /\ LET r == calculate_date_range(period, reference_date, today)
       IN  call' = [call EXCEPT ![c] =
                       [IdleCall EXCEPT
                           !.pc = "returned",
                           !.op = "calculate_date_range",
                           !.turn = turns + 1,
                           !.state = [period |-> period,
                                      reference_date |-> reference_date,
                                      today |-> today],
                           !.raised = r.kind = "error",
                           !.exc = r.cls,
                           !.result = r.content]]
    /\ turns' = turns + 1
    /\ UNCHANGED store
    /\ UNCHANGED apivars

(***************************************************************************)
(* SpecHelpers: calls of chunk_text on texts around and above max_length   *)
(* with periods at several places, and calls of calculate_date_range on    *)
(* the first, a middle and the last day of every month of two years.       *)
(***************************************************************************)
MaxHelperCalls == 1
MaxChunks == 4

\* a text of len letters 'a' with '.' at the positions periods
text_of(len, periods) ==
    [i \in 1..len |-> IF (i - 1) \in periods THEN 46 ELSE 97]

ChunkTexts ==
    {text_of(len, periods) :
        len \in {5, 1000, 1001, 2100},
        periods \in {{}, {99}, {50}, {999}, {150, 1200}}}

ReferenceDates ==
    {d \in {datetime(y, m, day, h) :
               y \in {2023, 2024}, m \in 1..12, day \in {1, 15, 28, 29, 30, 31}, h \in {12}} :
        d.day <= days_in_month(d.year, d.month)}

\* the dates at which a call without a reference date is made
TodayDates == {datetime(2024, 2, 29, 9), datetime(2024, 11, 1, 9)}

\* the periods of the calls: the four periods and 'day'
Periods == {P_week, P_month, P_quarter, P_year, <<100, 97, 121>>}

StartChunkText(c) ==
    /\ turns < MaxHelperCalls
    /\ \E text \in ChunkTexts : chunk_text_call(c, text)

ChunkStep(c) ==
    /\ call[c].pc = "chunking"
    /\ Len(call[c].state.chunks) < MaxChunks
    /\ chunk_text_step(c)

DateRangeStep(c) ==
    /\ turns < MaxHelperCalls
    /\ \/ \E period \in Periods, d \in ReferenceDates :
              calculate_date_range_call(c, period, Some(d), d)
       \/ \E period \in Periods, today \in TodayDates :
              calculate_date_range_call(c, period, None, today)

NextHelpers ==
    \/ StartChunkText(1)
    \/ ChunkStep(1)
    \/ DateRangeStep(1)

SpecHelpers == Init /\ [][NextHelpers]_vars

(***************************************************************************)
(* The claims.                                                             *)
(***************************************************************************)
Returned(c) == call[c].pc = "returned"
Failed(c) == call[c].failed_at # "none"
Succeeded(c) == Returned(c) /\ ~Failed(c)
Classified(c) == call[c].route # "none"
IntentOf(c) == call[c].state.current_intent
\* no call to a language model raised during the turn
ModelsAnswered(c) == call[c].exc # "APIError"

\* C1: process_message never lets an exception reach its caller: a turn in
\* which a node or the graph loop raised ends with a returned dictionary of
\* exactly the fields response, error and thread_id, whose response is the
\* fixed apology text and whose thread_id is the caller's.
C1_ExceptionBecomesApology ==
    \A c \in CallIds :
        /\ ~call[c].raised
        /\ Failed(c) =>
              /\ Returned(c)
              /\ DOMAIN call[c].result = {"response", "error", "thread_id"}
              /\ call[c].result.response = APOLOGY
              /\ call[c].result.thread_id = call[c].thread_id

C1_Witness ==
    \E c \in CallIds :
        /\ Returned(c)
        /\ call[c].failed_at = "agent"
        /\ "error" \in DOMAIN call[c].result
        /\ call[c].result.error = E_model

\* the messages a turn added to its thread
Appended(c) ==
    SubSeq(call[c].state.messages, Len(call[c].prior) + 1, Len(call[c].state.messages))

\* C2: every successful turn appends the user's message and exactly one
\* final assistant answer (an AI message that requests no tool) to the
\* messages the thread held before the turn.
C2_OneAnswerPerSuccessfulTurn ==
    \A c \in CallIds :
        Succeeded(c) =>
            /\ SubSeq(call[c].state.messages, 1, Len(call[c].prior)) = call[c].prior
            /\ Len(Appended(c)) >= 1
            /\ Appended(c)[1] = HumanMessage(call[c].message, call[c].turn)
            /\ Cardinality({i \in DOMAIN Appended(c) :
                               /\ Appended(c)[i].type = "ai"
                               /\ Appended(c)[i].tool_calls = <<>>}) = 1

\* C3: at the end of a turn routed to the general agent, in which every
\* model call answered, the thread's specialized_response does not hold the
\* output of an earlier turn.
C3_SpecializedResponseIsPerTurn ==
    \A c \in CallIds :
        (Returned(c) /\ call[c].route = "agent" /\ ModelsAnswered(c)) =>
            ~Truthy(Loaded(call[c].thread_id), "specialized_response")

\* C4: a turn whose message is classified job_search, training, admin or
\* general, and in which every model call answered, is routed to the general
\* agent and process_message returns specialized = false for it.
C4_GeneralIntentsReportNotSpecialized ==
    \A c \in CallIds :
        (/\ Returned(c)
         /\ Classified(c)
         /\ ModelsAnswered(c)
         /\ IntentOf(c) \in {L_job_search, L_training, L_admin, L_general}) =>
            /\ call[c].route = "agent"
            /\ "specialized" \in DOMAIN call[c].result
            /\ call[c].result.specialized = FALSE

\* the explicit-generation trigger words of each specializable intent
GenerationTriggers(intent) ==
    CASE intent = <<99, 118, 95, 104, 101, 108, 112>> ->
             {T_genere, T_cree, T_redige, T_fais_moi}
      [] intent = <<99, 111, 118, 101, 114, 95, 108, 101, 116, 116, 101, 114>> ->
             {T_ecris, T_redige, T_genere, T_prepare}
      [] intent = <<112, 114, 111, 102, 105, 108, 101>> ->
             {T_analyse, T_evalue, T_diagnostic, T_bilan}
      [] OTHER -> {}

C6_GenererMonCvIsSpecialized ==
    \A c \in CallIds :
        (/\ Classified(c)
         /\ call[c].message = M_generer_cv
         /\ IntentOf(c) = L_cv_help) =>
            /\ call[c].route = "specialized"
            /\ Returned(c) =>
                  /\ "specialized" \in DOMAIN call[c].result
                  /\ call[c].result.specialized = TRUE

\* C7: a question about CVs or cover letters that requests no generation,
\* "Comment ameliorer mon CV ?" (cv_help) or "Comment rediger une lettre de
\* motivation ?" (cover_letter), is routed to the general agent.
C7_QuestionsGoToGeneralAgent ==
    \A c \in CallIds :
        (/\ Classified(c)
         /\ \/ call[c].message = M_ameliorer_cv /\ IntentOf(c) = L_cv_help
            \/ call[c].message = M_rediger_lettre /\ IntentOf(c) = L_cover_letter) =>
            call[c].route = "agent"

\* C8: after intent detection, whatever the classifying model answered,
\* current_intent and the intent field of the result are one of the seven
\* labels.
C8_IntentIsALabel ==
    \A c \in CallIds :
        /\ Classified(c) => IntentOf(c) \in Labels
        /\ (Returned(c) /\ "intent" \in DOMAIN call[c].result) =>
               call[c].result.intent \in Labels

\* C9: when the model call of intent detection fails the turn is not
\* aborted: the intent is general and the turn goes on to the general agent.
C9_ClassificationFailureFallsBack ==
    \A c \in CallIds :
        call[c].failed_at = "detect_intent" =>
            /\ "error" \notin DOMAIN call[c].result
            /\ Get(call[c].state, "current_intent", <<>>) = L_general
            /\ call[c].route \in {"none", "agent"}

\* C10: a turn whose user message is empty is classified general and is not
\* routed to the specialized path, whatever the classifying model answers.
C10_EmptyMessageIsGeneral ==
    \A c \in CallIds :
        (Classified(c) /\ call[c].message = <<>>) =>
            /\ IntentOf(c) = L_general
            /\ call[c].route = "agent"

\* the last message the graph holds for the call
LastMessage(c) == call[c].state.messages[Len(call[c].state.messages)]

\* C11: on the general path a model message that carries tool calls is
\* followed by the tools node and then by another model call, and a model
\* message without tool calls ends the loop: the agent step in which the
\* model answered does not fail, and the turn goes on to format_response.
C11_AgentLoopEdges ==
    \A c \in CallIds :
        /\ call[c].pc = "tools" =>
               /\ LastMessage(c).type = "ai"
               /\ LastMessage(c).tool_calls # <<>>
        /\ \A i \in DOMAIN call[c].nodes :
               call[c].nodes[i] = "tools" =>
                   /\ i > 1 /\ call[c].nodes[i - 1] = "agent"
                   /\ i < Len(call[c].nodes) => call[c].nodes[i + 1] = "agent"
                   /\ i = Len(call[c].nodes) =>
                          \/ call[c].pc = "agent"
                          \/ Returned(c) /\ call[c].failed_at = "agent"
        /\ call[c].failed_at = "agent" => ~ModelsAnswered(c)

\* the tools rounds the recursion limit leaves to one invocation, after the
\* detect_intent and route_request steps
MaxRounds == (RecursionLimit - 2) \div 2

\* C12: the tool-calling loop is bounded whatever the model answers: an
\* invocation runs at most RecursionLimit node steps, hence at most MaxRounds
\* tools rounds, and an invocation stopped by the limit returns the error
\* result.
C12_ToolLoopIsBounded ==
    \A c \in CallIds :
        /\ call[c].step <= RecursionLimit
        /\ Len(call[c].nodes) <= RecursionLimit
        /\ ToolRounds(c) <= MaxRounds
        /\ call[c].exc = "GraphRecursionError" =>
               /\ Returned(c)
               /\ DOMAIN call[c].result = {"response", "error", "thread_id"}
               /\ call[c].result.response = APOLOGY

C12_Witness ==
    \E c \in CallIds :
        /\ Returned(c)
        /\ call[c].exc = "GraphRecursionError"
        /\ ToolRounds(c) = MaxRounds
        /\ call[c].result.error = E_recursion

\* the messages the graph holds for the call
Messages(c) == Get(call[c].state, "messages", <<>>)

\* C13: once the tools step has run for a model message that requests tool
\* calls, the history holds, right after that message, one tool message per
\* requested call, in the order of the request whatever the order in which
\* the calls completed, each carrying what its own call yielded, and no
\* model message comes before the last of them.
C13_ToolResultsInRequestOrder ==
    \A c \in CallIds :
        /\ \A i \in DOMAIN Messages(c) :
               LET m == Messages(c)[i]
                   n == Len(m.tool_calls)
               IN  (m.type = "ai" /\ n > 0 /\ i < Len(Messages(c))) =>
                       /\ i + n <= Len(Messages(c))
                       /\ \A j \in 1..n :
                              /\ Messages(c)[i + j].type = "tool"
                              /\ Messages(c)[i + j].name = m.tool_calls[j].name
                              /\ Messages(c)[i + j].turn = m.turn
                       /\ i + n < Len(Messages(c)) =>
                              Messages(c)[i + n + 1].type # "tool"
        /\ call[c].tools_round # <<>> =>
               LET round == call[c].tools_round
                   n == Len(round.order)
                   first == Len(Messages(c)) - n
                   requested == Messages(c)[first].tool_calls
               IN  /\ call[c].pc = "agent"
                   /\ Len(requested) = n
                   /\ \A j \in 1..n :
                          Messages(c)[first + j] =
                              tool_message(requested[j],
                                           run_tool(requested[j], round.operations[j]),
                                           call[c].turn)

C13_Witness ==
    \E c \in CallIds :
        /\ call[c].pc = "agent"
        /\ call[c].tools_round # <<>>
        /\ call[c].tools_round.order = <<2, 1>>
        /\ Len(Messages(c)) >= 3
        /\ Messages(c)[Len(Messages(c)) - 2].type = "ai"
        /\ Messages(c)[Len(Messages(c)) - 1].name = "search_knowledge"
        /\ Messages(c)[Len(Messages(c)) - 1].status = "error"
        /\ Messages(c)[Len(Messages(c))].name = "get_admin_info"
        /\ Messages(c)[Len(Messages(c))].status = "success"

\* the tools step just done: the calls requested and what each yielded
RoundRequested(c) ==
    Messages(c)[Len(Messages(c)) - Len(call[c].tools_round.order)].tool_calls
RoundOutcome(c, j) == run_tool(RoundRequested(c)[j], call[c].tools_round.operations[j])
RoundMessage(c, j) == Messages(c)[Len(Messages(c)) - Len(call[c].tools_round.order) + j]

\* 'Error: '
ErrorMark == <<69, 114, 114, 111, 114, 58, 32>>

\* C14: no tool failure aborts the turn: when a requested tool raises
\* (job-search failure, knowledge-base failure, document-generator failure,
\* unsupported doc_type) the tools step still completes, the failure is
\* appended as a tool message of status error that quotes it, and the next
\* step is a model call.
C14_ToolFailuresAreFedBack ==
    \A c \in CallIds :
        /\ call[c].failed_at # "tools"
        /\ call[c].tools_round # <<>> =>
               /\ call[c].pc = "agent"
               /\ \A j \in DOMAIN RoundRequested(c) :
                      RoundOutcome(c, j).kind = "error" =>
                          /\ RoundMessage(c, j).type = "tool"
                          /\ RoundMessage(c, j).status = "error"
                          /\ SubSeq(RoundMessage(c, j).content, 1, Len(ErrorMark)) = ErrorMark
                          /\ Contains(RoundMessage(c, j).content, RoundOutcome(c, j).content)

C14_Witness ==
    \E c \in CallIds :
        /\ call[c].pc = "agent"
        /\ call[c].tools_round # <<>>
        /\ RoundRequested(c)[1].name = "generate_document"
        /\ RoundRequested(c)[1].args.doc_type = DOC_pdf
        /\ RoundOutcome(c, 1).cls = "ToolException"
        /\ RoundMessage(c, 1).status = "error"

\* the header of a list of offers: '\U0001f50d **{total} offres trouv\xe9es**\n\n'
OffersHeader(total) ==
    <<128269, 32, 42, 42>> \o str_int(total)
    \o <<32, 111, 102, 102, 114, 101, 115, 32, 116, 114, 111, 117, 118, 233, 101, 115,
         42, 42, 10, 10>>

\* the offers a text lists, one link mark per offer
OffersListed(text) == Cardinality({i \in DOMAIN text : text[i] = 128279})

ValidTopics ==
    {<<105, 110, 115, 99, 114, 105, 112, 116, 105, 111, 110>>,
     <<97, 99, 116, 117, 97, 108, 105, 115, 97, 116, 105, 111, 110>>,
     <<97, 108, 108, 111, 99, 97, 116, 105, 111, 110, 115>>}

\* 'Sujet non trouv\xe9. Sujets disponibles : inscription, actualisation, allocations'
TopicsMessage ==
    <<83, 117, 106, 101, 116, 32, 110, 111, 110, 32, 116, 114, 111, 117, 118, 233, 46, 32, 83, 117, 106, 101, 116, 115, 32, 100, 105, 115, 112, 111, 110, 105, 98, 108, 101, 115, 32, 58, 32, 105, 110, 115, 99, 114, 105, 112, 116, 105, 111, 110, 44, 32, 97, 99, 116, 117, 97, 108, 105, 115, 97, 116, 105, 111, 110, 44, 32, 97, 108, 108, 111, 99, 97, 116, 105, 111, 110, 115>>

\* C16: get_admin_info called with a topic that is not in its table does
\* not fail: its result is the message that enumerates the valid topics,
\* inscription, actualisation, allocations.
C16_UnknownTopicListsTopics ==
    \A c \in CallIds :
        call[c].tools_round # <<>> =>
            \A j \in DOMAIN RoundRequested(c) :
                (/\ RoundRequested(c)[j].name = "get_admin_info"
                 /\ lower(RoundRequested(c)[j].args.topic) \notin ValidTopics) =>
                    /\ RoundOutcome(c, j).kind = "ok"
                    /\ RoundMessage(c, j).status = "success"
                    /\ RoundMessage(c, j).content = TopicsMessage

C16_Witness ==
    \E c \in CallIds :
        /\ call[c].tools_round # <<>>
        /\ RoundRequested(c)[1].name = "get_admin_info"
        /\ RoundRequested(c)[1].args.topic = K_retraite
        /\ RoundMessage(c, 1).content = TopicsMessage

\* the calls of get_access_token that have examined the cache
Examined(c) == api[c].op = "get_access_token" /\ api[c].checked # <<>>

\* C17: a call of get_access_token issues exactly one refresh request when
\* the cache it examines is empty or holds a token whose expires_at is not
\* in the future, and none when it holds a token that has not expired, which
\* is then the token it returns.
C17_OneRefreshWhenStale ==
    \A c \in ApiCallers :
        /\ api[c].requests <= 1
        /\ Examined(c) =>
               LET seen == api[c].checked
               IN  IF seen.cache = NoToken \/ seen.cache.expires_at <= seen.at
                   THEN api[c].requests = 1
                   ELSE /\ api[c].requests = 0
                        /\ api[c].pc = "returned"
                        /\ api[c].result = seen.cache.access_token

C17_Witness ==
    \E c \in ApiCallers :
        /\ Examined(c)
        /\ api[c].pc = "returned"
        /\ api[c].checked.cache # NoToken
        /\ api[c].checked.cache.expires_at < api[c].checked.at
        /\ api[c].requests = 1
        /\ api[c].result = token_cache.access_token
        /\ api[c].result # api[c].checked.cache.access_token

\* the refresh requests in flight
Pending == {i \in DOMAIN refreshes : refreshes[i].status = "pending"}

ObtainedAt(token) == refreshes[token.access_token].at

\* C19: a token obtained at time t with declared lifetime expires_in is
\* treated as valid by the cache exactly while now < t + expires_in - 60: a
\* call that examines it before that instant returns it, a call that
\* examines it from that instant on refreshes.
C19_ValidUntilLifetimeMinusMargin ==
    /\ token_cache # NoToken =>
           (is_expired(token_cache, now)
               <=> now >= ObtainedAt(token_cache) + token_cache.expires_in - 60)
    /\ \A c \in ApiCallers :
           (api[c].checked # <<>> /\ api[c].checked.cache # NoToken) =>
               LET token == api[c].checked.cache
               IN  (api[c].requests = 0)
                       <=> (api[c].checked.at
                               < ObtainedAt(token) + token.expires_in - 60)

C19_Witness ==
    \E c \in ApiCallers :
        /\ api[c].checked # <<>>
        /\ api[c].checked.cache # NoToken
        /\ api[c].checked.cache.expires_in > 60
        /\ api[c].checked.at = ObtainedAt(api[c].checked.cache)
                                  + api[c].checked.cache.expires_in - 60
        /\ api[c].requests = 1

\* the attempts of a search that failed
FailedAttempts(c) == {i \in DOMAIN api[c].tried : api[c].tried[i] = "failed"}

\* C20: one call of search_offers makes at most 3 attempts; it returns the
\* response of the first attempt that succeeds, and it raises only once 3
\* attempts in a row have failed.
C20_ThreeAttempts ==
    \A c \in ApiCallers :
        api[c].op = "search_offers" =>
            /\ api[c].attempt <= 3
            /\ Len(api[c].tried) <= api[c].attempt
            /\ api[c].pc = "returned" =>
                   /\ api[c].tried[Len(api[c].tried)] = "ok"
                   /\ FailedAttempts(c) = 1..(Len(api[c].tried) - 1)
                   /\ api[c].exc = ""
                   /\ "total_results" \in DOMAIN api[c].result
            /\ api[c].pc = "raised" =>
                   /\ FailedAttempts(c) = 1..3
                   /\ api[c].exc = "RetryError"
            /\ (FailedAttempts(c) # {} /\ Len(api[c].tried) < 3) =>
                   api[c].pc # "raised"

C20_Witness ==
    \E c \in ApiCallers :
        /\ api[c].op = "search_offers"
        /\ api[c].pc = "returned"
        /\ api[c].tried = <<"failed", "failed", "ok">>
        /\ api[c].result.total_results = 0

\* a turn of process_message that has started and not yet returned
TurnInFlight(c) ==
    call[c].op = "process_message" /\ call[c].pc \notin {"idle", "returned"}

\* C21: at most one turn is in flight per thread_id, and of two calls of
\* process_message on the same thread the later one starts from everything
\* the earlier one wrote.
C21_OneTurnInFlightPerThread ==
    \A c, d \in CallIds :
        c # d =>
            /\ (TurnInFlight(c) /\ TurnInFlight(d)) =>
                   call[c].thread_id # call[d].thread_id
            /\ (/\ call[c].op = "process_message"
                /\ call[d].op = "process_message"
                /\ call[c].thread_id = call[d].thread_id
                /\ call[d].turn < call[c].turn) =>
                   /\ Len(call[d].state.messages) <= Len(call[c].prior)
                   /\ SubSeq(call[c].prior, 1, Len(call[d].state.messages))
                          = call[d].state.messages

\* the caller starts a turn of process_message in this step
Starts(c) ==
    /\ call[c].pc \in {"idle", "returned"}
    /\ call'[c].op = "process_message"
    /\ call'[c].pc = "detect_intent"

\* the channels process_message writes as the input of a turn
InputChannels == {"messages", "user_profile", "thread_id"}

\* C22: a step of a process_message or of a clear_conversation on one
\* thread leaves the checkpoint of every other thread as it was (absent if
\* it was absent), and a turn that starts on a thread takes its prior
\* messages, its current_intent and its specialized_response from the
\* checkpoint of that thread alone.
C22_ThreadsAreIndependent ==
    [][\A t \in ThreadIds :
          /\ (\A c \in CallIds : call'[c] # call[c] => call'[c].thread_id # t) =>
                 /\ (t \in DOMAIN store') <=> (t \in DOMAIN store)
                 /\ t \in DOMAIN store => store'[t] = store[t]
          /\ \A c \in CallIds :
                 (Starts(c) /\ call'[c].thread_id = t) =>
                     LET own == Get(store, t, <<>>)
                     IN  /\ call'[c].prior = Get(own, "messages", <<>>)
                         /\ \A k \in DOMAIN call'[c].state \ InputChannels :
                                k \in DOMAIN own /\ call'[c].state[k] = own[k]
                         /\ DOMAIN own \subseteq DOMAIN call'[c].state]_vars

C22_Witness ==
    \E c, d \in CallIds :
        /\ call[c].op = "process_message"
        /\ call[d].op = "process_message"
        /\ call[c].thread_id # call[d].thread_id
        /\ call[d].turn < call[c].turn
        /\ TurnInFlight(d)
        /\ call[d].step > 0
        /\ Succeeded(c)
        /\ DOMAIN store = ThreadIds

\* C23: a thread has one conversation state, the one its checkpoint holds:
\* the state a turn works on is the state stored for its thread; and the
\* first turn on a thread that has no checkpoint starts from no message but
\* its own user message and from no other channel than its input.
C23_OneStatePerThread ==
    /\ [](\A c \in Callers :
              call[c].op = "process_message" =>
                  /\ call[c].thread_id \in DOMAIN store
                  /\ store[call[c].thread_id] = call[c].state)
    /\ [][\A c \in Callers :
              (Starts(c) /\ call'[c].thread_id \notin DOMAIN store) =>
                  /\ call'[c].prior = <<>>
                  /\ call'[c].state.messages
                         = <<HumanMessage(call'[c].message, call'[c].turn)>>
                  /\ DOMAIN call'[c].state = InputChannels]_vars

C23_Witness ==
    \E c \in Callers :
        /\ call[c].op = "process_message"
        /\ call[c].prior = <<>>
        /\ Returned(c)
        /\ DOMAIN store = ThreadIds
        /\ \E t \in ThreadIds : Len(store[t].messages) > 0 /\ t # call[c].thread_id

\* the messages the thread of the call holds
Stored(c) == store[call[c].thread_id].messages

\* C24: a successful turn leaves the messages the thread held before it,
\* followed by its user message and then by its assistant answer, so that N
\* successful turns leave at least N messages; and the messages of a thread
\* are in the order of the calls that made them.
C24_TurnsAppendInCallOrder ==
    \A c \in Callers :
        (call[c].op = "process_message" /\ Succeeded(c)) =>
            LET n == Len(call[c].prior)
            IN  /\ Len(Stored(c)) >= n + 2
                /\ SubSeq(Stored(c), 1, n) = call[c].prior
                /\ Stored(c)[n + 1] = HumanMessage(call[c].message, call[c].turn)
                /\ Stored(c)[n + 2].type = "ai"
                /\ Stored(c)[n + 2].turn = call[c].turn
                /\ \A i, j \in DOMAIN Stored(c) :
                       i < j => Stored(c)[i].turn <= Stored(c)[j].turn

\* a call of clear_conversation that came right before the call c, on the
\* same thread
ClearedJustBefore(c) ==
    \E d \in CallIds :
        /\ call[d].op = "clear_conversation"
        /\ call[d].pc = "returned"
        /\ call[d].thread_id = call[c].thread_id
        /\ call[d].turn + 1 = call[c].turn

\* C25: a process_message that follows a clear_conversation on its thread
\* starts like the first turn of a new thread: no prior message, and no
\* channel (current_intent, specialized_response) kept from before the
\* clear.
C25_ClearThenTurnIsFresh ==
    \A c \in CallIds :
        (call[c].op = "process_message" /\ ClearedJustBefore(c)) =>
            /\ call[c].prior = <<>>
            /\ call[c].pc = "detect_intent" =>
                   /\ DOMAIN call[c].state = InputChannels
                   /\ call[c].state.messages
                          = <<HumanMessage(call[c].message, call[c].turn)>>

\* the messages of the turn of the call
OfTurn(c) == SelectSeq(call[c].state.messages, LAMBDA m : m.turn = call[c].turn)

\* C26: tools_used of a successful turn names the tool calls requested in
\* that turn, in request order, and none of an earlier turn.
C26_ToolsUsedAreOfTheTurn ==
    \A c \in Callers :
        (call[c].op = "process_message" /\ Succeeded(c)) =>
            call[c].result.tools_used = ToolsUsed(OfTurn(c))

\* the fields every result of process_message is to carry
ResultFields == {"response", "intent", "specialized", "thread_id", "tools_used"}

\* C27: every dictionary process_message returns, after a success and
\* after an error alike, has the fields response, intent, specialized,
\* thread_id and tools_used.
C27_ResultHasAllFields ==
    \A c \in Callers :
        (call[c].op = "process_message" /\ Returned(c) /\ ~call[c].raised) =>
            ResultFields \subseteq DOMAIN call[c].result

\* the chains that ran for the call, and the text of the exception the
\* first of them raised (none if it did not raise)
ChainsRun(c) == [i \in DOMAIN call[c].completions |-> call[c].completions[i].chain]
ChainError(c) ==
    IF ChainsRun(c) = <<>> THEN <<>> ELSE call[c].completions[1].error

\* the nodes the graph ran in the turn of the call
NodesRun(c) == {call[c].nodes[i] : i \in DOMAIN call[c].nodes}

\* the specialized node has run for the call, in a turn or on its own
SpecializedRan(c) ==
    \/ call[c].op = "process_message" /\ "specialized" \in NodesRun(c)
    \/ call[c].op = "_specialized_node" /\ ~call[c].raised

\* what the specialized node yielded for the call
SpecializedOutput(c) ==
    IF call[c].op = "process_message"
    THEN call[c].state.specialized_response
    ELSE call[c].result.specialized_response

\* C28: where the specialized node ran, it made exactly one completion, by
\* the chain of the intent (profile, cv_help, cover_letter), and the turn
\* ran no agent or tools node and holds no tool call of its own; for any
\* other intent it made no completion and yielded "Je ne peux pas traiter
\* cette demande spécialisée."
C28_OneCompletionNoTool ==
    \A c \in CallIds :
        SpecializedRan(c) =>
            LET intent == Get(call[c].state, "current_intent", L_general)
            IN  /\ NodesRun(c) \cap {"agent", "tools"} = {}
                /\ \A i \in DOMAIN call[c].state.messages :
                       call[c].state.messages[i].turn = call[c].turn =>
                           call[c].state.messages[i].tool_calls = <<>>
                /\ intent = L_profile => ChainsRun(c) = <<"analyze_profile">>
                /\ intent = L_cv_help => ChainsRun(c) = <<"generate_cv">>
                /\ intent = L_cover_letter =>
                       ChainsRun(c) = <<"generate_cover_letter">>
                /\ intent \notin {L_profile, L_cv_help, L_cover_letter} =>
                       /\ ChainsRun(c) = <<>>
                       /\ SpecializedOutput(c) = SPECIALIZED_FALLBACK

C28_Witness ==
    /\ call[1].op = "process_message"
    /\ Succeeded(1)
    /\ call[1].route = "specialized"
    /\ ChainsRun(1) = <<"generate_cv">>
    /\ call[2].op = "_specialized_node"
    /\ call[2].state.current_intent = L_training
    /\ call[2].completions = <<>>
    /\ call[2].result.specialized_response = SPECIALIZED_FALLBACK

\* C29: when the chain of a specialized turn raises, the turn does not
\* abort: it succeeds, its last message is an assistant message made of the
\* fixed preamble followed by the text of the exception, that message is the
\* response, and the result has no error field.
C29_ChainErrorBecomesAnswer ==
    \A c \in Callers :
        (/\ call[c].op = "process_message"
         /\ Returned(c)
         /\ call[c].route = "specialized"
         /\ ChainError(c) # <<>>) =>
            /\ Succeeded(c)
            /\ ~call[c].raised
            /\ LastMessage(c).type = "ai"
            /\ LastMessage(c).turn = call[c].turn
            /\ LastMessage(c).content
                   = SPECIALIZED_ERROR_PREFIX \o ChainError(c)[1]
            /\ call[c].result.response = LastMessage(c).content
            /\ "error" \notin DOMAIN call[c].result

C29_Witness ==
    \E c \in Callers :
        /\ call[c].op = "process_message"
        /\ Succeeded(c)
        /\ ChainError(c) = <<E_model>>
        /\ Contains(call[c].result.response, E_model)

\* C30: after a turn that ended with the error result, the thread holds the
\* messages it held before the turn and at most the user message of the
\* turn: nothing else the aborted turn produced.
C30_FailedTurnLeavesNoPartialOutput ==
    \A c \in Callers :
        (call[c].op = "process_message" /\ Returned(c) /\ Failed(c)) =>
            \/ Stored(c) = call[c].prior
            \/ Stored(c) = Append(call[c].prior,
                                  HumanMessage(call[c].message, call[c].turn))

\* the positions at which a node ran in the turn of the call
RanAt(c, node) == {i \in DOMAIN call[c].nodes : call[c].nodes[i] = node}

\* C31: in every turn detect_intent runs first and once, route_request
\* second and once; after it either the agent loop (agent and tools) or the
\* specialized node runs, never both; format_response runs at most once,
\* after an agent or specialized step, nothing runs after it, and a turn
\* reaches END only through it; a turn in which every model call answered
\* and which the loop did not cut short runs all of them and reaches END.
C31_StepsInOrder ==
    \A c \in Callers :
        call[c].op = "process_message" =>
            LET n == call[c].nodes
            IN  /\ RanAt(c, "detect_intent") \subseteq {1}
                /\ RanAt(c, "route_request") \subseteq {2}
                /\ Len(n) >= 1 => n[1] = "detect_intent"
                /\ Len(n) >= 2 => n[2] = "route_request"
                /\ RanAt(c, "agent") \cup RanAt(c, "tools") = {}
                       \/ RanAt(c, "specialized") = {}
                /\ Cardinality(RanAt(c, "specialized")) <= 1
                /\ \A i \in RanAt(c, "tools") : n[i - 1] = "agent"
                /\ \A i \in RanAt(c, "format_response") :
                       /\ i = Len(n)
                       /\ n[i - 1] \in {"agent", "specialized"}
                /\ (call[c].pc = "END" \/ Succeeded(c)) =>
                       /\ n # <<>>
                       /\ n[Len(n)] = "format_response"
                       /\ call[c].route \in {"agent", "specialized"}
                /\ (Returned(c) /\ Failed(c)) =>
                       call[c].exc \in {"APIError", "GraphRecursionError"}

\* the sequence a is the beginning of the sequence b
IsPrefix(a, b) == Len(a) <= Len(b) /\ SubSeq(b, 1, Len(a)) = a

\* C32: every step keeps the checkpoint of every thread and leaves the
\* messages the thread held at the beginning of the messages it holds after
\* the step: none is removed, replaced or moved.
C32_HistoryIsAppendOnly ==
    [][\A t \in DOMAIN store :
          /\ t \in DOMAIN store'
          /\ IsPrefix(store[t].messages, store'[t].messages)]_vars

LastK(messages, k) ==
    SubSeq(messages, Len(messages) - (IF k < Len(messages) THEN k ELSE Len(messages)) + 1,
           Len(messages))

\* C33: get_conversation_history on a thread that holds messages returns
\* those messages in order when no limit is given, and the last k of them
\* for a limit k; get_conversation_summary on such a thread does not report
\* that no conversation was found.
C33_HistoryReturnsStoredMessages ==
    \A c \in CallIds :
        call[c].prior # <<>> =>
            /\ call[c].op = "get_conversation_history" =>
                   call[c].result =
                       IF call[c].state.limit = <<>> THEN call[c].prior
                       ELSE LastK(call[c].prior, call[c].state.limit[1])
            /\ (call[c].op = "get_conversation_summary" /\ ~call[c].raised) =>
                   call[c].result # NO_CONVERSATION

\* the call of get_access_token of the caller returns in this step
ReturnsToken(c) ==
    /\ api[c].pc # "returned"
    /\ api'[c].pc = "returned"
    /\ api'[c].op = "get_access_token"

\* C35: when get_access_token returns, the cache holds the token it
\* returns and that token is not expired at that moment.
C35_ReturnedTokenIsValid ==
    [][\A c \in ApiCallers :
          ReturnsToken(c) =>
              /\ token_cache' # NoToken
              /\ token_cache'.access_token = api'[c].result
              /\ now' < token_cache'.expires_at]_vars

\* C36: a refresh that fails raises out of get_access_token, leaves the
\* cached token as it was and releases the lock with its queue intact; the
\* lock is only ever held by a caller that is inside get_access_token, and
\* every queued caller is still waiting, so the next one can go on.
C36_FailedRefreshReleases ==
    /\ [][\A c \in ApiCallers :
             (api[c].pc = "refreshing" /\ api'[c].pc = "raised") =>
                 /\ api'[c].exc = "HTTPStatusError"
                 /\ token_cache' = token_cache
                 /\ lock'.holder = 0
                 /\ lock'.waiters = lock.waiters]_vars
    /\ [](/\ lock.holder # 0 => api[lock.holder].pc \in {"locked", "refreshing"}
          /\ \A i \in DOMAIN lock.waiters : api[lock.waiters[i]].pc = "waiting")

C36_Witness ==
    \E c, d \in ApiCallers :
        /\ api[c].pc = "raised"
        /\ api[c].exc = "HTTPStatusError"
        /\ api[d].behind # 0
        /\ refreshes[api[d].behind].status = "error"
        /\ refreshes[api[d].behind].by = c
        /\ api[d].pc = "returned"
        /\ api[d].requests = 1
        /\ token_cache # NoToken

\* int(text) of a text of decimal digits
RECURSIVE int_of(_)
int_of(digits) ==
    IF digits = <<>> THEN 0
    ELSE 10 * int_of(SubSeq(digits, 1, Len(digits) - 1)) + (digits[Len(digits)] - 48)

\* the two numbers of a range parameter 'first-last'
RangeFirst(r) ==
    int_of(SubSeq(r, 1, (CHOOSE i \in DOMAIN r : r[i] = 45) - 1))
RangeLast(r) ==
    int_of(SubSeq(r, (CHOOSE i \in DOMAIN r : r[i] = 45) + 1, Len(r)))

\* the call has built the parameters of a search
BuiltParams(c) ==
    /\ Returned(c)
    /\ call[c].op \in {"_build_search_params", "search_job_offers"}
    /\ ~call[c].raised

\* C37: the range parameter of page p of size n is 'p*n-((p+1)*n-1)': it
\* starts at p*n, holds n results and the range of the next page starts
\* right after it; page 1 of size 50 gives '50-99' and the default request
\* gives '0-19'.
C37_RangeOfPage ==
    \A c \in CallIds :
        BuiltParams(c) =>
            LET request == call[c].result.request
                p == request.page
                n == request.per_page
                r == call[c].result.params["range"]
                next == build_search_params([request EXCEPT !.page = p + 1])["range"]
            IN  /\ r = str_int(p * n) \o <<45>> \o str_int((p + 1) * n - 1)
                /\ RangeFirst(r) = p * n
                /\ RangeLast(r) - RangeFirst(r) + 1 = n
                /\ RangeFirst(next) = RangeLast(r) + 1
                /\ (p = 1 /\ n = 50) => r = <<53, 48, 45, 57, 57>>
                /\ call[c].state = <<>> => r = <<48, 45, 49, 57>>

C37_Witness ==
    \E c \in CallIds :
        /\ BuiltParams(c)
        /\ call[c].op = "_build_search_params"
        /\ call[c].result.request.page = 1
        /\ call[c].result.request.per_page = 50
        /\ call[c].result.params["range"] = <<53, 48, 45, 57, 57>>

\* C38: a call of the job-search tool with arguments its input schema
\* accepts does not raise, every contract type of CDI, CDD, MIS, SAI, STG
\* it was given is among the contract types of the request, and an
\* experience level D, E or S is the experience level of the request.
C38_AcceptedFiltersAreForwarded ==
    \A c \in CallIds :
        (/\ Returned(c)
         /\ call[c].op = "search_job_offers"
         /\ JobSearchInput(call[c].state).kind = "ok") =>
            LET args == call[c].state
                request == call[c].result.request
            IN  /\ ~call[c].raised
                /\ args.contract_types # None =>
                       \A i \in DOMAIN args.contract_types[1] :
                           args.contract_types[1][i] \in valid_types =>
                               /\ request.contract_types # None
                               /\ \E j \in DOMAIN request.contract_types[1] :
                                      request.contract_types[1][j] = args.contract_types[1][i]
                /\ (/\ args.experience_level # None
                    /\ args.experience_level[1] \in DOMAIN ExperienceLevel) =>
                       request.experience_levels = Some(<<args.experience_level[1]>>)

\* C39: in chunk_text with the default max_length and overlap the start
\* position grows at every iteration of the loop, and the chunks returned
\* cover every position of the text.
C39_ChunkTextAdvancesAndCovers ==
    /\ [][\A c \in CallIds :
             (/\ call[c].op = "chunk_text" /\ call[c].pc = "chunking"
              /\ call'[c].op = "chunk_text" /\ call'[c].pc = "chunking"
              /\ call'[c] # call[c]) =>
                 call'[c].state.start > call[c].state.start]_vars
    /\ [](\A c \in CallIds :
             (Returned(c) /\ call[c].op = "chunk_text") =>
                 \A i \in 0..(Len(call[c].state.text) - 1) :
                     \E k \in DOMAIN call[c].state.spans :
                         /\ call[c].state.spans[k][1] <= i
                         /\ i < call[c].state.spans[k][2])

\* C40: calculate_date_range('quarter', date) returns, for a date of any
\* month, the first and the last day of the quarter of the date, and the
\* date lies between them.
C40_QuarterOfEveryMonth ==
    \A c \in CallIds :
        (/\ Returned(c)
         /\ call[c].op = "calculate_date_range"
         /\ call[c].state.period = P_quarter) =>
            LET ref == IF call[c].state.reference_date = None
                       THEN call[c].state.today
                       ELSE call[c].state.reference_date[1]
                first == ((ref.month - 1) \div 3) * 3 + 1
            IN  /\ ~call[c].raised
                /\ call[c].result[1] = [ref EXCEPT !.month = first, !.day = 1]
                /\ call[c].result[2] =
                       [ref EXCEPT !.month = first + 2,
                                   !.day = days_in_month(ref.year, first + 2)]
                /\ toordinal(call[c].result[1]) <= toordinal(ref)
                /\ toordinal(ref) <= toordinal(call[c].result[2])
====
